---------------------------- MODULE Spec2Model ----------------------------
(***************************************************************************)
(* Green-function evaluation framework (package green_functions):          *)
(*   - BaseGreenFunction: getColocationPointsAndNormals, initMatrices      *)
(*   - the four strategies' Evaluate (Delhommeau, HAMS, LiangWuNoblesseGF, *)
(*     FinGreen3D) and FinGreen3D's dispersion-root state                  *)
(*   - TabulationCache: NewTabulationCache, Interpolate, findIndex         *)
(*                                                                         *)
(* float64 values are modelled as records [inf, v]: a finite integer v or  *)
(* +Inf.  A matrix is modelled by its dimensions and a tag naming where    *)
(* its data comes from; a nil pointer is NilMatrix.                        *)
(***************************************************************************)
EXTENDS Integers, Sequences, FiniteSets

VARIABLES
    args,   \* the meshes and flags the caller passes: mesh1, mesh2, adjointDoubleLayer, earlyDotProduct
    ret,    \* the last call made and what it returned
    fg,     \* the FinGreen3D instance: waterDepth, waveNumber, dispersionRoots
    tc,     \* the TabulationCache: RRange, ZRange, Values, IsValid, Precision
    input,  \* what the caller passes to a constructor or a function: rRange, zRange, precision
            \* and the point (r, z); omega and waterDepth; the parameters of the Delhommeau instances
    out,    \* the last operation on a cache or an instance, or function call, and what it returned
    dh,     \* the Delhommeau instances a and b
    mem,    \* the heap of matrix blocks and the matrices Evaluate has returned to the caller
    procs   \* the goroutines: where each one is in the call it makes, and its locals

vars == <<args, ret, fg, tc, input, out, dh, mem, procs>>

---------------------------------------------------------------------------
(* Bounds of the model *)

\* Meshes of 0..MaxFaces faces and point arrays of 1..MaxFaces rows are tried
\* (and a mesh of one face more than the ceiling of ValidateMatrixDimensions).
MaxFaces == 2
\* Dimensions passed to initMatrices directly: -1..MaxDim (and the ceiling, and one above).
MaxDim == 2
\* Grid coordinates are 0..MaxCoord; queries are -1..MaxCoord+1.
MaxCoord == 1
\* NewTabulationCache is passed an rRange of 0..MaxRangeLen entries and a
\* zRange of 0..MaxRangeLen-1 entries.
MaxRangeLen == 3

\* ComputeWaveNumber is called with omega in -MaxOmega..MaxOmega.
MaxOmega == 15
\* The parameters of Delhommeau instance a differ from the defaults in at
\* most MaxChanged fields (those of instance b in at most one).
MaxChanged == 2
\* A caller makes at most MaxCalls calls of Evaluate and keeps what they return.
MaxCalls == 2
\* MaxGoroutines goroutines construct Delhommeau instances at the same time,
\* or call Evaluate on one FinGreen3D instance at the same time.
MaxGoroutines == 2
\* The coordinates of the points passed to RankineSourceGradient are 0..MaxPoint
\* (and 0..MaxPoint times 2^-600); RankineSource is passed such distances.
MaxPoint == 2
\* The nodes of a strictly increasing range are among 0, 2, ..., 2*MaxNode.
MaxNode == 2

(* Program constants *)

\* ValidateMatrixDimensions: rows > 1000000 || cols > 1000000
MaxMatrixDim == 1000000
\* computeDispersionRoots: for n := 1; n <= 10; n++
NEvan == 10
\* ComputeWaveNumber: for i := 0; i < 100; i++
MaxIter == 100

---------------------------------------------------------------------------
(* float64 and complex128 *)

Fin(x) == [inf |-> FALSE, v |-> x]
PosInf == [inf |-> TRUE, v |-> 0]
\* math.IsInf(f, 1)
IsInf(f) == f.inf

RECURSIVE Gcd(_, _)
Gcd(a, b) == IF b = 0 THEN a ELSE Gcd(b, a % b)

\* complex(re, im + npi*Pi/h): npi/h is kept in lowest terms, so that two
\* values are equal exactly when the numbers are.
Cx(re, im) == [re |-> re, im |-> im, npi |-> 0, h |-> 1]
\* complex(0, float64(n)*math.Pi/h) for a finite h > 0
ImPiOver(n, h) ==
    LET g == Gcd(n, h) IN [re |-> 0, im |-> 0, npi |-> n \div g, h |-> h \div g]

---------------------------------------------------------------------------
(* Inputs *)

FaceCounts == (0..MaxFaces) \cup {MaxMatrixDim + 1}

\* A value implementing MeshLike; GetNbFaces() = n.
Mesh(id, n) == [kind |-> "mesh", id |-> id, n |-> n, cols |-> 3]
\* A *mat.Dense point array of n rows and c columns.
PointArray(id, n, c) == [kind |-> "dense", id |-> id, n |-> n, cols |-> c]
\* Any other value: a string, nil, ...
Other(id) == [kind |-> "other", id |-> id, n |-> 0, cols |-> 0]

\* Column counts of the point arrays tried: 3 and one that is not 3.
PointCols == {2, 3}

\* What is passed as mesh1.
Mesh1Inputs ==
    {Mesh("m1", n) : n \in FaceCounts}
    \cup {PointArray("m1", n, c) : n \in 1..MaxFaces, c \in PointCols}
    \cup {Other("m1")}

\* What is passed as mesh2: no code looks at a mesh2 that is not MeshLike.
Mesh2Inputs ==
    {Mesh("m2", n) : n \in FaceCounts}
    \cup {PointArray("m2", 1, 3), Other("m2")}

ArgSets ==
    [mesh1 : Mesh1Inputs, mesh2 : Mesh2Inputs,
     adjointDoubleLayer : BOOLEAN, earlyDotProduct : BOOLEAN]

FreeSurfaces == {Fin(0), PosInf}
WaterDepths == {Fin(10), Fin(20), PosInf}
WaveNumbers == {Cx(1, 0), Cx(2, 0)}

DimInputs == (-1..MaxDim) \cup {MaxMatrixDim, MaxMatrixDim + 1}

---------------------------------------------------------------------------
(* Matrices *)

NilMatrix == [rows |-> 0, cols |-> 0, data |-> <<"nil", "">>]

IsMeshLike(m) == m.kind = "mesh"
IsDense(m) == m.kind = "dense"

GetFacesCenters(m) == [rows |-> m.n, cols |-> 3, data |-> <<"centers", m.id>>]
GetFacesNormals(m) == [rows |-> m.n, cols |-> 3, data |-> <<"normals", m.id>>]
GetNbFaces(m) == m.n
\* the point array itself, as a matrix
DenseOf(m) == [rows |-> m.n, cols |-> m.cols, data |-> <<"points", m.id>>]

\* mat.NewDense(r, c, nil) / mat.NewCDense(r, c, nil): a zero matrix; gonum
\* panics for r <= 0 or c <= 0.
NewZero(r, c) == [rows |-> r, cols |-> c, data |-> <<"zero", "">>]
NewPanics(r, c) == r <= 0 \/ c <= 0

---------------------------------------------------------------------------
(* Results: kind is "ok", "err" (a returned error; err names it) or
   "panic" (a run-time panic: nothing is returned). *)

Result(kind, err, a, b) == [kind |-> kind, err |-> err, a |-> a, b |-> b]
Ok(a, b) == Result("ok", "", a, b)
Err(e) == Result("err", e, NilMatrix, NilMatrix)
Panic == Result("panic", "", NilMatrix, NilMatrix)

---------------------------------------------------------------------------
(* BaseGreenFunction *)

\* Mutant: the two branches of adjointDoubleLayer exchanged for a mesh-like mesh1.
getColocation_AdjointSwapped(mesh1, mesh2, adjointDoubleLayer) ==
    CASE IsMeshLike(mesh1) ->
            IF adjointDoubleLayer
            THEN IF IsMeshLike(mesh2)
                 THEN Ok(GetFacesCenters(mesh1), GetFacesNormals(mesh2))
                 ELSE Err("mesh2 must implement MeshLike interface when mesh1 is MeshLike")
            ELSE Ok(GetFacesCenters(mesh1), GetFacesNormals(mesh1))
      [] IsDense(mesh1) ->
            IF mesh1.cols # 3
            THEN Err("point array must have 3 columns (x, y, z coordinates)")
            ELSE IF ~adjointDoubleLayer
                 THEN IF IsMeshLike(mesh2)
                      THEN Ok(DenseOf(mesh1), GetFacesNormals(mesh2))
                      ELSE Err("mesh2 must implement MeshLike interface when mesh1 is point array")
                 ELSE Ok(DenseOf(mesh1), NewZero(mesh1.n, 3))
      [] OTHER -> Err("unrecognized first input type for Green function evaluation")

\* Mutant: the column check of a point array made after the look at mesh2.
getColocation_ColumnCheckLate(mesh1, mesh2, adjointDoubleLayer) ==
    CASE IsMeshLike(mesh1) ->
            IF ~adjointDoubleLayer
            THEN IF IsMeshLike(mesh2)
                 THEN Ok(GetFacesCenters(mesh1), GetFacesNormals(mesh2))
                 ELSE Err("mesh2 must implement MeshLike interface when mesh1 is MeshLike")
            ELSE Ok(GetFacesCenters(mesh1), GetFacesNormals(mesh1))
      [] IsDense(mesh1) ->
            IF ~adjointDoubleLayer /\ ~IsMeshLike(mesh2)
            THEN Err("mesh2 must implement MeshLike interface when mesh1 is point array")
            ELSE IF mesh1.cols # 3
                 THEN Err("point array must have 3 columns (x, y, z coordinates)")
                 ELSE IF ~adjointDoubleLayer
                      THEN Ok(DenseOf(mesh1), GetFacesNormals(mesh2))
                      ELSE Ok(DenseOf(mesh1), NewZero(mesh1.n, 3))
      [] OTHER -> Err("unrecognized first input type for Green function evaluation")

\* Mutant: no default case; an unrecognized mesh1 yields nil points and normals, no error.
getColocation_NoDefault(mesh1, mesh2, adjointDoubleLayer) ==
    CASE IsMeshLike(mesh1) ->
            IF ~adjointDoubleLayer
            THEN IF IsMeshLike(mesh2)
                 THEN Ok(GetFacesCenters(mesh1), GetFacesNormals(mesh2))
                 ELSE Err("mesh2 must implement MeshLike interface when mesh1 is MeshLike")
            ELSE Ok(GetFacesCenters(mesh1), GetFacesNormals(mesh1))
      [] IsDense(mesh1) ->
            IF mesh1.cols # 3
            THEN Err("point array must have 3 columns (x, y, z coordinates)")
            ELSE IF ~adjointDoubleLayer
                 THEN IF IsMeshLike(mesh2)
                      THEN Ok(DenseOf(mesh1), GetFacesNormals(mesh2))
                      ELSE Err("mesh2 must implement MeshLike interface when mesh1 is point array")
                 ELSE Ok(DenseOf(mesh1), NewZero(mesh1.n, 3))
      [] OTHER -> Ok(NilMatrix, NilMatrix)

\* getColocationPointsAndNormals(mesh1, mesh2, adjointDoubleLayer):
\* a = colocationPoints, b = earlyDotProductNormals.
getColocationPointsAndNormals(mesh1, mesh2, adjointDoubleLayer) ==
    CASE IsMeshLike(mesh1) ->
            IF ~adjointDoubleLayer
            THEN IF IsMeshLike(mesh2)
                 THEN Ok(GetFacesCenters(mesh1), GetFacesNormals(mesh2))
                 ELSE Err("mesh2 must implement MeshLike interface when mesh1 is MeshLike")
            ELSE Ok(GetFacesCenters(mesh1), GetFacesNormals(mesh1))
      [] IsDense(mesh1) ->
            IF mesh1.cols # 3
            THEN Err("point array must have 3 columns (x, y, z coordinates)")
            ELSE IF ~adjointDoubleLayer
                 THEN IF IsMeshLike(mesh2)
                      THEN Ok(DenseOf(mesh1), GetFacesNormals(mesh2))
                      ELSE Err("mesh2 must implement MeshLike interface when mesh1 is point array")
                 ELSE IF NewPanics(mesh1.n, 3)
                      THEN Panic
                      ELSE Ok(DenseOf(mesh1), NewZero(mesh1.n, 3))
      [] OTHER -> Err("unrecognized first input type for Green function evaluation")

\* Mutant: the widths of K for the two values of earlyDotProduct exchanged.
initMatrices_KColsSwapped(rows, cols, earlyDotProduct) ==
    LET kCols == IF earlyDotProduct THEN 3 ELSE 1 IN
    IF NewPanics(rows, cols) \/ NewPanics(rows, cols * kCols)
    THEN Panic
    ELSE Ok(NewZero(rows, cols), NewZero(rows, cols * kCols))

\* initMatrices(rows, cols, earlyDotProduct): a = S, b = K.
initMatrices(rows, cols, earlyDotProduct) ==
    LET kCols == IF earlyDotProduct THEN 1 ELSE 3 IN
    IF NewPanics(rows, cols) \/ NewPanics(rows, cols * kCols)
    THEN Panic
    ELSE Ok(NewZero(rows, cols), NewZero(rows, cols * kCols))

\* ValidateMatrixDimensions(rows, cols): no caller in the package but its test.
ValidateMatrixDimensions(rows, cols) ==
    IF rows <= 0 \/ cols <= 0
    THEN Err("Matrix dimensions must be positive")
    ELSE IF rows > MaxMatrixDim \/ cols > MaxMatrixDim
         THEN Err("Matrix dimensions too large")
         ELSE Ok(NilMatrix, NilMatrix)

\* Mutant: no check that mesh2 is MeshLike after the colocation data; the
\* type assertion's zero value gives cols = 0.
EvaluateCommon_NoMesh2Check(mesh1, mesh2, adjointDoubleLayer, earlyDotProduct) ==
    LET coloc == getColocationPointsAndNormals(mesh1, mesh2, adjointDoubleLayer)
        rows  == IF IsMeshLike(mesh1) THEN GetNbFaces(mesh1)
                 ELSE IF IsDense(mesh1) THEN mesh1.n ELSE 0
        cols  == IF IsMeshLike(mesh2) THEN GetNbFaces(mesh2) ELSE 0
    IN  IF coloc.kind # "ok"
        THEN coloc
        ELSE initMatrices(rows, cols, earlyDotProduct)

\* The tail every Evaluate shares: colocation data, the matrix dimensions,
\* the check of mesh2, the allocation.
EvaluateCommon(mesh1, mesh2, adjointDoubleLayer, earlyDotProduct) ==
    LET coloc == getColocationPointsAndNormals(mesh1, mesh2, adjointDoubleLayer)
        rows  == IF IsMeshLike(mesh1) THEN GetNbFaces(mesh1)
                 ELSE IF IsDense(mesh1) THEN mesh1.n ELSE 0
    IN  IF coloc.kind # "ok"
        THEN coloc
        ELSE IF ~IsMeshLike(mesh2)
             THEN Err("mesh2 must implement MeshLike interface")
             ELSE initMatrices(rows, GetNbFaces(mesh2), earlyDotProduct)

\* Delhommeau.Evaluate
DelhommeauEvaluate(mesh1, mesh2, freeSurface, waterDepth, wavenumber, adjointDoubleLayer, earlyDotProduct) ==
    EvaluateCommon(mesh1, mesh2, adjointDoubleLayer, earlyDotProduct)

\* HAMS.Evaluate
HAMSEvaluate(mesh1, mesh2, freeSurface, waterDepth, wavenumber, adjointDoubleLayer, earlyDotProduct) ==
    EvaluateCommon(mesh1, mesh2, adjointDoubleLayer, earlyDotProduct)

\* Mutant: the constraint tested with && instead of ||.
LiangWuNoblesse_AndConstraint(mesh1, mesh2, freeSurface, waterDepth, wavenumber, adjointDoubleLayer, earlyDotProduct) ==
    IF IsInf(freeSurface) /\ ~IsInf(waterDepth)
    THEN Err("LiangWuNoblesseGF is only implemented for infinite depth with a free surface")
    ELSE EvaluateCommon(mesh1, mesh2, adjointDoubleLayer, earlyDotProduct)

\* LiangWuNoblesseGF.Evaluate
LiangWuNoblesseEvaluate(mesh1, mesh2, freeSurface, waterDepth, wavenumber, adjointDoubleLayer, earlyDotProduct) ==
    IF IsInf(freeSurface) \/ ~IsInf(waterDepth)
    THEN Err("LiangWuNoblesseGF is only implemented for infinite depth with a free surface")
    ELSE EvaluateCommon(mesh1, mesh2, adjointDoubleLayer, earlyDotProduct)

---------------------------------------------------------------------------
(* FinGreen3D *)

\* Mutant: the evanescent roots counted from n = 0.
computeDispersionRoots_FromZero(depth, wavenumber) ==
    IF ~IsInf(depth)
    THEN <<wavenumber>> \o [n \in 1..NEvan |-> ImPiOver(n - 1, depth.v)]
    ELSE <<wavenumber>>

\* computeDispersionRoots(wavenumber), reading fg.waterDepth = depth
computeDispersionRoots(depth, wavenumber) ==
    IF ~IsInf(depth)
    THEN <<wavenumber>> \o [n \in 1..NEvan |-> ImPiOver(n, depth.v)]
    ELSE <<wavenumber>>

\* NewFinGreen3D(waterDepth): waveNumber is the zero value, dispersionRoots nil
NewFinGreen3D(waterDepth) ==
    [waterDepth |-> waterDepth, waveNumber |-> Cx(0, 0), dispersionRoots |-> <<>>]

\* Mutant: the roots are kept when they were computed for this wave number.
SetWaveNumber_RootsKept(f, wavenumber) ==
    IF f.dispersionRoots # <<>> /\ f.dispersionRoots[1] = wavenumber
    THEN [f EXCEPT !.waveNumber = wavenumber]
    ELSE [f EXCEPT !.waveNumber = wavenumber,
                   !.dispersionRoots = computeDispersionRoots(f.waterDepth, wavenumber)]

\* SetWaveNumber(wavenumber) on instance f: the instance afterwards
SetWaveNumber(f, wavenumber) ==
    [f EXCEPT !.waveNumber = wavenumber,
              !.dispersionRoots = computeDispersionRoots(f.waterDepth, wavenumber)]

\* Mutant: the instance is left as it was.
FinGreenUpdate_Unchanged(f, waterDepth, wavenumber) == f

\* Mutant: the requested water depth is not stored.
FinGreenUpdate_DepthKept(f, waterDepth, wavenumber) ==
    SetWaveNumber(f, wavenumber)

\* FinGreen3D.Evaluate, lines 85-92: the instance after the state update
FinGreenUpdate(f, waterDepth, wavenumber) ==
    SetWaveNumber(IF waterDepth # f.waterDepth
                  THEN [f EXCEPT !.waterDepth = waterDepth]
                  ELSE f,
                  wavenumber)

\* FinGreen3D.Evaluate: what it returns
FinGreenEvaluate(mesh1, mesh2, freeSurface, waterDepth, wavenumber, adjointDoubleLayer, earlyDotProduct) ==
    EvaluateCommon(mesh1, mesh2, adjointDoubleLayer, earlyDotProduct)

---------------------------------------------------------------------------
(* TabulationCache.  Coordinates are integers; a value of the grid is a
   complex number with integer parts; an interpolated value is the exact
   quotient (re + i*im)/den in lowest terms, or NaN (both parts NaN, the
   result of float64 0/0 in a weight). *)

\* the i-th element of a Go slice (0-based)
At(s, i) == s[i + 1]

\* make([][]complex128, rows) with each row make([]complex128, cols)
ZeroValues(rows, cols) == [j \in 1..rows |-> [i \in 1..cols |-> Cx(0, 0)]]

\* Mutant: rows and cols of the value matrix exchanged.
NewTabulationCache_Transposed(rRange, zRange, precision) ==
    [RRange |-> rRange, ZRange |-> zRange,
     Values |-> ZeroValues(Len(rRange), Len(zRange)),
     IsValid |-> FALSE, Precision |-> precision]

\* NewTabulationCache(rRange, zRange, precision)
NewTabulationCache(rRange, zRange, precision) ==
    [RRange |-> rRange, ZRange |-> zRange,
     Values |-> ZeroValues(Len(zRange), Len(rRange)),
     IsValid |-> FALSE, Precision |-> precision]

\* Mutant: cells are half-open, arr[i] <= val < arr[i+1].
RECURSIVE findIndexFrom_HalfOpen(_, _, _)
findIndexFrom_HalfOpen(arr, val, i) ==
    IF ~(i < Len(arr) - 1)
    THEN -1
    ELSE IF val >= At(arr, i) /\ val < At(arr, i + 1)
         THEN i
         ELSE findIndexFrom_HalfOpen(arr, val, i + 1)

\* findIndex(arr, val): the first i < len(arr)-1 with arr[i] <= val <= arr[i+1], or -1
RECURSIVE findIndexFrom(_, _, _)
findIndexFrom(arr, val, i) ==
    IF ~(i < Len(arr) - 1)
    THEN -1
    ELSE IF val >= At(arr, i) /\ val <= At(arr, i + 1)
         THEN i
         ELSE findIndexFrom(arr, val, i + 1)

findIndex(arr, val) == findIndexFrom(arr, val, 0)

Abs(x) == IF x < 0 THEN -x ELSE x
Gcd3(a, b, c) == Gcd(Gcd(Abs(a), Abs(b)), Abs(c))

\* (re + i*im)/den for den > 0, in lowest terms
Quot(re, im, den) ==
    LET g == Gcd3(re, im, den)
    IN  [nan |-> FALSE, re |-> re \div g, im |-> im \div g, den |-> den \div g]
NaN == [nan |-> TRUE, re |-> 0, im |-> 0, den |-> 1]
NoValue == Quot(0, 0, 1)

IResult(kind, err, value) == [kind |-> kind, err |-> err, value |-> value]

\* Whether Values[j][i] is an index in bounds (0-based)
InBounds(values, j, i) ==
    /\ 0 <= j /\ j < Len(values)
    /\ 0 <= i /\ i < Len(At(values, j))

\* Mutant: the weights fr and 1-fr exchanged.
Bilinear_WeightsExchanged(c, r, z, rIdx, zIdx) ==
    LET r1 == At(c.RRange, rIdx)
        r2 == At(c.RRange, rIdx + 1)
        z1 == At(c.ZRange, zIdx)
        z2 == At(c.ZRange, zIdx + 1)
        v11 == At(At(c.Values, zIdx), rIdx)
        v12 == At(At(c.Values, zIdx + 1), rIdx)
        v21 == At(At(c.Values, zIdx), rIdx + 1)
        v22 == At(At(c.Values, zIdx + 1), rIdx + 1)
        v1re == v11.re * (r - r1) + v21.re * (r2 - r)
        v1im == v11.im * (r - r1) + v21.im * (r2 - r)
        v2re == v12.re * (r - r1) + v22.re * (r2 - r)
        v2im == v12.im * (r - r1) + v22.im * (r2 - r)
    IN  IF r2 = r1 \/ z2 = z1
        THEN NaN
        ELSE Quot(v1re * (z2 - z) + v2re * (z - z1),
                  v1im * (z2 - z) + v2im * (z - z1),
                  (r2 - r1) * (z2 - z1))

\* Mutant: the corners Values[z1][r2] and Values[z2][r1] exchanged.
Bilinear_CornersSwapped(c, r, z, rIdx, zIdx) ==
    LET r1 == At(c.RRange, rIdx)
        r2 == At(c.RRange, rIdx + 1)
        z1 == At(c.ZRange, zIdx)
        z2 == At(c.ZRange, zIdx + 1)
        v11 == At(At(c.Values, zIdx), rIdx)
        v21 == At(At(c.Values, zIdx + 1), rIdx)
        v12 == At(At(c.Values, zIdx), rIdx + 1)
        v22 == At(At(c.Values, zIdx + 1), rIdx + 1)
        v1re == v11.re * (r2 - r) + v21.re * (r - r1)
        v1im == v11.im * (r2 - r) + v21.im * (r - r1)
        v2re == v12.re * (r2 - r) + v22.re * (r - r1)
        v2im == v12.im * (r2 - r) + v22.im * (r - r1)
    IN  IF r2 = r1 \/ z2 = z1
        THEN NaN
        ELSE Quot(v1re * (z2 - z) + v2re * (z - z1),
                  v1im * (z2 - z) + v2im * (z - z1),
                  (r2 - r1) * (z2 - z1))

\* Interpolate, lines 177-196: the bilinear blend in the cell (rIdx, zIdx).
\* With fr = (r-r1)/(r2-r1), fz = (z-z1)/(z2-z1):
\*   v1 = v11*(1-fr) + v21*fr,  v2 = v12*(1-fr) + v22*fr,  v1*(1-fz) + v2*fz
\* over the common denominator (r2-r1)*(z2-z1).
Bilinear(c, r, z, rIdx, zIdx) ==
    LET r1 == At(c.RRange, rIdx)
        r2 == At(c.RRange, rIdx + 1)
        z1 == At(c.ZRange, zIdx)
        z2 == At(c.ZRange, zIdx + 1)
        v11 == At(At(c.Values, zIdx), rIdx)
        v12 == At(At(c.Values, zIdx + 1), rIdx)
        v21 == At(At(c.Values, zIdx), rIdx + 1)
        v22 == At(At(c.Values, zIdx + 1), rIdx + 1)
        v1re == v11.re * (r2 - r) + v21.re * (r - r1)
        v1im == v11.im * (r2 - r) + v21.im * (r - r1)
        v2re == v12.re * (r2 - r) + v22.re * (r - r1)
        v2im == v12.im * (r2 - r) + v22.im * (r - r1)
    IN  IF r2 = r1 \/ z2 = z1
        THEN NaN
        ELSE Quot(v1re * (z2 - z) + v2re * (z - z1),
                  v1im * (z2 - z) + v2im * (z - z1),
                  (r2 - r1) * (z2 - z1))

\* Mutant: the range check made before the validity check.
Interpolate_RangeFirst(c, r, z) ==
    LET rIdx == findIndex(c.RRange, r)
        zIdx == findIndex(c.ZRange, z)
    IN  IF rIdx < 0 \/ rIdx >= Len(c.RRange) - 1 \/ zIdx < 0 \/ zIdx >= Len(c.ZRange) - 1
        THEN IResult("err", "Point outside tabulation range", NoValue)
        ELSE IF ~c.IsValid
             THEN IResult("err", "Tabulation cache is not valid", NoValue)
             ELSE IF ~(InBounds(c.Values, zIdx + 1, rIdx + 1) /\ InBounds(c.Values, zIdx, rIdx))
                  THEN IResult("panic", "index out of range", NoValue)
                  ELSE IResult("ok", "", Bilinear(c, r, z, rIdx, zIdx))

\* Interpolate(r, z) on cache c
Interpolate(c, r, z) ==
    IF ~c.IsValid
    THEN IResult("err", "Tabulation cache is not valid", NoValue)
    ELSE LET rIdx == findIndex(c.RRange, r)
             zIdx == findIndex(c.ZRange, z)
         IN  IF rIdx < 0 \/ rIdx >= Len(c.RRange) - 1 \/ zIdx < 0 \/ zIdx >= Len(c.ZRange) - 1
             THEN IResult("err", "Point outside tabulation range", NoValue)
             ELSE IF ~(InBounds(c.Values, zIdx + 1, rIdx + 1) /\ InBounds(c.Values, zIdx, rIdx))
                  THEN IResult("panic", "index out of range", NoValue)
                  ELSE IResult("ok", "", Bilinear(c, r, z, rIdx, zIdx))

---------------------------------------------------------------------------
(* The operations on a TabulationCache *)

Coords == 0..MaxCoord
QueryCoords == -1..(MaxCoord + 1)
\* Any slice of coordinates, in any order: NewTabulationCache stores the
\* slices it is given.
RangeInputs == UNION {[1..n -> Coords] : n \in 0..MaxRangeLen}
ZRangeInputs == UNION {[1..n -> Coords] : n \in 0..(MaxRangeLen - 1)}
Precisions == {"float32", "float64"}

Out(op, res) == [op |-> op, res |-> res]
Done == IResult("ok", "", NoValue)
NoOut == Out("NewTabulationCache", Done)
NoInput == [rRange |-> <<>>, zRange |-> <<>>, precision |-> "float64", r |-> 0, z |-> 0]
EmptyCache == NewTabulationCache(NoInput.rRange, NoInput.zRange, NoInput.precision)
\* No Delhommeau instance has been built.
NoDelhommeau == <<>>
\* Nothing has been allocated, nothing returned.
NoMem == [heap |-> <<>>, returned |-> <<>>]
\* No goroutine but the caller's.
NoProcs == <<>>

\* tc.IsValid = true
SetValid ==
    /\ tc' = [tc EXCEPT !.IsValid = TRUE]
    /\ out' = Out("SetValid", Done)
    /\ UNCHANGED <<args, ret, fg, input, dh, mem, procs>>

\* tc.Interpolate(r, z)
CallInterpolate ==
    /\ out' = Out("Interpolate", Interpolate(tc, input.r, input.z))
    /\ UNCHANGED <<args, ret, fg, tc, input, dh, mem, procs>>

---------------------------------------------------------------------------
(* The calls of the evaluation framework *)

\* What ret records of a call: the operation, its arguments that are not
\* in args, and its result.
Call(op, freeSurface, waterDepth, wavenumber, rows, cols, res) ==
    [op |-> op, freeSurface |-> freeSurface, waterDepth |-> waterDepth,
     wavenumber |-> wavenumber, rows |-> rows, cols |-> cols, res |-> res]

NoCall == Call("none", Fin(0), Fin(0), Cx(0, 0), 0, 0, Err(""))

Strategies == {"Delhommeau", "HAMS", "LiangWuNoblesseGF", "FinGreen3D"}

EvaluateDelhommeau ==
    \E fs \in FreeSurfaces, d \in WaterDepths, k \in WaveNumbers :
        /\ ret' = Call("Delhommeau", fs, d, k, 0, 0,
                       DelhommeauEvaluate(args.mesh1, args.mesh2, fs, d, k,
                                          args.adjointDoubleLayer, args.earlyDotProduct))
        /\ UNCHANGED <<args, fg, tc, input, out, dh, mem, procs>>

EvaluateHAMS ==
    \E fs \in FreeSurfaces, d \in WaterDepths, k \in WaveNumbers :
        /\ ret' = Call("HAMS", fs, d, k, 0, 0,
                       HAMSEvaluate(args.mesh1, args.mesh2, fs, d, k,
                                    args.adjointDoubleLayer, args.earlyDotProduct))
        /\ UNCHANGED <<args, fg, tc, input, out, dh, mem, procs>>

EvaluateLiangWuNoblesse ==
    \E fs \in FreeSurfaces, d \in WaterDepths, k \in WaveNumbers :
        /\ ret' = Call("LiangWuNoblesseGF", fs, d, k, 0, 0,
                       LiangWuNoblesseEvaluate(args.mesh1, args.mesh2, fs, d, k,
                                               args.adjointDoubleLayer, args.earlyDotProduct))
        /\ UNCHANGED <<args, fg, tc, input, out, dh, mem, procs>>

EvaluateFinGreen3D ==
    \E fs \in FreeSurfaces, d \in WaterDepths, k \in WaveNumbers :
        /\ fg' = FinGreenUpdate(fg, d, k)
        /\ ret' = Call("FinGreen3D", fs, d, k, 0, 0,
                       FinGreenEvaluate(args.mesh1, args.mesh2, fs, d, k,
                                        args.adjointDoubleLayer, args.earlyDotProduct))
        /\ UNCHANGED <<args, tc, input, out, dh, mem, procs>>

CallSetWaveNumber ==
    \E k \in WaveNumbers :
        /\ fg' = SetWaveNumber(fg, k)
        /\ ret' = Call("SetWaveNumber", Fin(0), fg.waterDepth, k, 0, 0, Ok(NilMatrix, NilMatrix))
        /\ UNCHANGED <<args, tc, input, out, dh, mem, procs>>

CallGetColocationPointsAndNormals ==
    /\ ret' = Call("getColocationPointsAndNormals", Fin(0), Fin(0), Cx(0, 0), 0, 0,
                   getColocationPointsAndNormals(args.mesh1, args.mesh2, args.adjointDoubleLayer))
    /\ UNCHANGED <<args, fg, tc, input, out, dh, mem, procs>>

CallInitMatrices ==
    \E rows \in DimInputs, cols \in DimInputs :
        /\ ret' = Call("initMatrices", Fin(0), Fin(0), Cx(0, 0), rows, cols,
                       initMatrices(rows, cols, args.earlyDotProduct))
        /\ UNCHANGED <<args, fg, tc, input, out, dh, mem, procs>>

CallValidateMatrixDimensions ==
    \E rows \in DimInputs, cols \in DimInputs :
        /\ ret' = Call("ValidateMatrixDimensions", Fin(0), Fin(0), Cx(0, 0), rows, cols,
                       ValidateMatrixDimensions(rows, cols))
        /\ UNCHANGED <<args, fg, tc, input, out, dh, mem, procs>>

\* The four strategies, called on meshes and flags fixed per behaviour.
Init ==
    /\ args \in ArgSets
    /\ ret = NoCall
    /\ \E d \in WaterDepths : fg = NewFinGreen3D(d)
    /\ tc = EmptyCache
    /\ input = NoInput
    /\ out = NoOut
    /\ dh = NoDelhommeau
    /\ mem = NoMem
    /\ procs = NoProcs

Next ==
    \/ EvaluateDelhommeau
    \/ EvaluateHAMS
    \/ EvaluateLiangWuNoblesse
    \/ EvaluateFinGreen3D
    \/ CallSetWaveNumber
    \/ CallGetColocationPointsAndNormals

Spec == Init /\ [][Next]_vars

\* The helpers of BaseGreenFunction, called directly (as the package's tests do).
NextBase ==
    \/ CallGetColocationPointsAndNormals
    \/ CallInitMatrices
    \/ CallValidateMatrixDimensions

InitBase ==
    /\ args \in ArgSets
    /\ ret = NoCall
    /\ fg = NewFinGreen3D(PosInf)
    /\ tc = EmptyCache
    /\ input = NoInput
    /\ out = NoOut
    /\ dh = NoDelhommeau
    /\ mem = NoMem
    /\ procs = NoProcs

SpecBase == InitBase /\ [][NextBase]_vars

\* One cache, built by NewTabulationCache, and one query point.
InitCache ==
    /\ args = [mesh1 |-> Other("m1"), mesh2 |-> Other("m2"),
               adjointDoubleLayer |-> FALSE, earlyDotProduct |-> FALSE]
    /\ ret = NoCall
    /\ fg = NewFinGreen3D(PosInf)
    /\ input \in [rRange : RangeInputs, zRange : ZRangeInputs, precision : Precisions,
                  r : QueryCoords, z : QueryCoords]
    /\ tc = NewTabulationCache(input.rRange, input.zRange, input.precision)
    /\ out = NoOut
    /\ dh = NoDelhommeau
    /\ mem = NoMem
    /\ procs = NoProcs

NextCache ==
    \/ SetValid
    \/ CallInterpolate

SpecCache == InitCache /\ [][NextCache]_vars

\* tc.findIndex(tc.RRange, r) and tc.findIndex(tc.ZRange, z), called directly
\* (as the package's test does).
CallFindIndex ==
    \E which \in {"r", "z"} :
        LET arr == IF which = "r" THEN tc.RRange ELSE tc.ZRange
            val == IF which = "r" THEN input.r ELSE input.z
        IN  /\ out' = Out("findIndex", [arr |-> arr, val |-> val, idx |-> findIndex(arr, val)])
            /\ UNCHANGED <<args, ret, fg, tc, input, dh, mem, procs>>

NextFind == CallFindIndex

SpecFind == InitCache /\ [][NextFind]_vars

---------------------------------------------------------------------------
(* A populated TabulationCache.  The package has no build step of its own
   (createTabulation is empty): a cache is populated as its tests do, by
   assignments to IsValid and Values. *)

\* Grid coordinates of the populated caches are even, so that the midpoint
\* of a cell is a coordinate too.
GridCoords == {2 * c : c \in Coords}
GridQueries == -1..(2 * MaxCoord + 1)
GridRRanges == UNION {[1..n -> GridCoords] : n \in 0..MaxRangeLen}
GridZRanges == UNION {[1..n -> GridCoords] : n \in 0..2}

\* The value stored at node (zIdx, rIdx) = (j, i), 0-based:
\* "rz" gives 1, 2 / 3, 4 on a 2 x 2 grid, "im" has an imaginary part.
Kernels == {"rz", "im"}
NodeValue(kernel, j, i) ==
    IF kernel = "rz" THEN Cx(1 + i + 2 * j, 0) ELSE Cx(i * i, 1 + 3 * j)

FillValues(values, kernel) ==
    [j \in 1..Len(values) |-> [i \in 1..Len(values[j]) |-> NodeValue(kernel, j - 1, i - 1)]]

\* tc.IsValid = true; tc.Values[j][i] = ... for every node
Populate ==
    /\ ~tc.IsValid
    /\ tc' = [tc EXCEPT !.IsValid = TRUE, !.Values = FillValues(tc.Values, input.kernel)]
    /\ out' = Out("Populate", Done)
    /\ UNCHANGED <<args, ret, fg, input, dh, mem, procs>>

InitInterp ==
    /\ args = [mesh1 |-> Other("m1"), mesh2 |-> Other("m2"),
               adjointDoubleLayer |-> FALSE, earlyDotProduct |-> FALSE]
    /\ ret = NoCall
    /\ fg = NewFinGreen3D(PosInf)
    /\ input \in [rRange : GridRRanges, zRange : GridZRanges, precision : {"float64"},
                  r : GridQueries, z : GridQueries, kernel : Kernels]
    /\ tc = NewTabulationCache(input.rRange, input.zRange, input.precision)
    /\ out = NoOut
    /\ dh = NoDelhommeau
    /\ mem = NoMem
    /\ procs = NoProcs

NextInterp ==
    \/ Populate
    \/ CallInterpolate

SpecInterp == InitInterp /\ [][NextInterp]_vars

\* Caches whose ranges are strictly increasing with at least two nodes each,
\* populated and queried.  Coordinates are even, so that cell midpoints are
\* coordinates too; a range of three nodes has an interior node and a last
\* cell that is not the first.
NodeCoords == {2 * c : c \in 0..MaxNode}
NodeQueries == -1..(2 * MaxNode + 1)
IncreasingRanges ==
    {s \in UNION {[1..n -> NodeCoords] : n \in 2..MaxRangeLen} :
        \A i \in 1..(Len(s) - 1) : s[i] < s[i + 1]}

InitGrid ==
    /\ args = [mesh1 |-> Other("m1"), mesh2 |-> Other("m2"),
               adjointDoubleLayer |-> FALSE, earlyDotProduct |-> FALSE]
    /\ ret = NoCall
    /\ fg = NewFinGreen3D(PosInf)
    /\ input \in [rRange : IncreasingRanges, zRange : IncreasingRanges,
                  precision : {"float64"},
                  r : NodeQueries, z : NodeQueries, kernel : Kernels]
    /\ tc = NewTabulationCache(input.rRange, input.zRange, input.precision)
    /\ out = NoOut
    /\ dh = NoDelhommeau
    /\ mem = NoMem
    /\ procs = NoProcs

NextGrid ==
    \/ Populate
    \/ CallInterpolate

SpecGrid == InitGrid /\ [][NextGrid]_vars

---------------------------------------------------------------------------
(* ComputeWaveNumber.  A float64 is modelled by the exact rational it
   stands for, [num, den] in lowest terms with den > 0; rounding is not
   modelled.  Every rational of the model has a denominator below 2^31, so a
   modelled number is below 1e-10 (or 1e-12, 1e-15) in magnitude exactly
   when it is 0. *)

Rat(n, d) ==
    LET g == Gcd(Abs(n), Abs(d))
        sgn == IF d < 0 THEN -1 ELSE 1
    IN  [num |-> sgn * (n \div g), den |-> sgn * (d \div g)]
RAdd(a, b) == Rat(a.num * b.den + b.num * a.den, a.den * b.den)
RSub(a, b) == Rat(a.num * b.den - b.num * a.den, a.den * b.den)
RMul(a, b) == Rat(a.num * b.num, a.den * b.den)
\* a / b for b # 0
RDiv(a, b) == Rat(a.num * b.den, a.den * b.num)
RAbs(a) == [num |-> Abs(a.num), den |-> a.den]
\* math.Abs(x) < 1e-15, x < 1e-12, x < 1e-10 for x >= 0
Below(x) == x.num = 0

\* Gravity = 9.81
Gravity == Rat(981, 100)

\* math.Tanh, modelled where its float64 value is a rational: 0 at 0, and 1
\* or -1 beyond TanhOne in magnitude (math.Tanh returns 1 or -1 for
\* |x| > 0.5*MAXLOG = 44.01...).
TanhOne == 45
Tanh(x) ==
    CASE x.num = 0 -> Rat(0, 1)
      [] x.num >= TanhOne * x.den -> Rat(1, 1)
      [] x.num <= -TanhOne * x.den -> Rat(-1, 1)

\* complex(k, 0), with the number of iterations begun and how the loop was
\* left: "df" and "step" are the two breaks, "cap" the end of the for loop,
\* "none" the deep-water return.
WaveResult(k, iterations, stop) ==
    [re |-> k, im |-> Rat(0, 1), iterations |-> iterations, stop |-> stop]

\* The body of one iteration of the Newton-Raphson loop at estimate k: which
\* break it takes ("" for none), and the next estimate.
NewtonIteration(k, v, waterDepth) ==
    LET tanh_kh  == Tanh(RMul(k, waterDepth))
        sech2_kh == RSub(Rat(1, 1), RMul(tanh_kh, tanh_kh))
        f        == RSub(RMul(k, tanh_kh), v)
        df       == RAdd(tanh_kh, RMul(RMul(k, waterDepth), sech2_kh))
    IN  IF Below(RAbs(df))
        THEN [stop |-> "df", k |-> k]
        ELSE LET k_new == RSub(k, RDiv(f, df))
             IN  IF Below(RAbs(RSub(k_new, k)))
                 THEN [stop |-> "step", k |-> k]
                 ELSE [stop |-> "", k |-> k_new]

\* The loop's variables: the estimate k, the number i of iterations begun,
\* and the break taken ("" while the loop runs).
Frame(k, i, stop) == [k |-> k, i |-> i, stop |-> stop]

\* One pass of the for loop from frame s: nothing after a break.
NewtonBody(s, v, waterDepth) ==
    IF s.stop # ""
    THEN s
    ELSE LET it == NewtonIteration(s.k, v, waterDepth)
         IN  Frame(it.k, s.i + 1, it.stop)

\* n >= 1 passes of the for loop from frame s, as n \div 2 passes followed,
\* unless a break was taken, by the remaining ones.
RECURSIVE NewtonLoop(_, _, _, _)
NewtonLoop(s, v, waterDepth, n) ==
    IF n = 1
    THEN NewtonBody(s, v, waterDepth)
    ELSE LET mid == NewtonLoop(s, v, waterDepth, n \div 2)
         IN  IF mid.stop # ""
             THEN mid
             ELSE NewtonLoop(mid, v, waterDepth, n - (n \div 2))

\* The Newton-Raphson loop of ComputeWaveNumber with its cap of iter
\* iterations, from the initial guess v, and the return after it.
NewtonRaphson(v, waterDepth, iter) ==
    LET s == NewtonLoop(Frame(v, 0, ""), v, waterDepth, iter)
    IN  WaveResult(s.k, s.i, IF s.stop = "" THEN "cap" ELSE s.stop)

\* Mutant: the deep-water wave number without the square of omega.
ComputeWaveNumber_NoSquare(omega, waterDepth) ==
    IF IsInf(waterDepth)
    THEN WaveResult(RDiv(Rat(omega, 1), Gravity), 0, "none")
    ELSE LET v == RDiv(RMul(Rat(omega, 1), Rat(omega, 1)), Gravity)
         IN  NewtonRaphson(v, Rat(waterDepth.v, 1), MaxIter)

\* Mutant: the loop runs while i <= 100.
ComputeWaveNumber_OneMore(omega, waterDepth) ==
    IF IsInf(waterDepth)
    THEN WaveResult(RDiv(RMul(Rat(omega, 1), Rat(omega, 1)), Gravity), 0, "none")
    ELSE LET v == RDiv(RMul(Rat(omega, 1), Rat(omega, 1)), Gravity)
         IN  NewtonRaphson(v, Rat(waterDepth.v, 1), MaxIter + 1)

\* ComputeWaveNumber(omega, waterDepth)
ComputeWaveNumber(omega, waterDepth) ==
    IF IsInf(waterDepth)
    THEN WaveResult(RDiv(RMul(Rat(omega, 1), Rat(omega, 1)), Gravity), 0, "none")
    ELSE LET v == RDiv(RMul(Rat(omega, 1), Rat(omega, 1)), Gravity)
         IN  NewtonRaphson(v, Rat(waterDepth.v, 1), MaxIter)

Omegas == (-MaxOmega)..MaxOmega
\* The depths passed besides +Inf and 0: two depths, and a negative number.
FiniteDepths == {Fin(10), Fin(20), Fin(-10)}
\* The inputs on which the loop evaluates math.Tanh where it is modelled:
\* infinite depth, depth 0, omega = 0 at any depth, and the omega with
\* (omega*omega/g)*|depth| >= TanhOne.
WaveInputs ==
    {[omega |-> w, waterDepth |-> d] : w \in Omegas, d \in {PosInf, Fin(0)}}
    \cup {[omega |-> 0, waterDepth |-> d] : d \in WaterDepths}
    \cup {[omega |-> w, waterDepth |-> d] :
              w \in {x \in Omegas : x * x * 100 * 10 >= TanhOne * 981}, d \in FiniteDepths}

CallComputeWaveNumber ==
    /\ out' = Out("ComputeWaveNumber", ComputeWaveNumber(input.omega, input.waterDepth))
    /\ UNCHANGED <<args, ret, fg, tc, input, dh, mem, procs>>

InitWave ==
    /\ args = [mesh1 |-> Other("m1"), mesh2 |-> Other("m2"),
               adjointDoubleLayer |-> FALSE, earlyDotProduct |-> FALSE]
    /\ ret = NoCall
    /\ fg = NewFinGreen3D(PosInf)
    /\ tc = EmptyCache
    /\ input \in WaveInputs
    /\ out = NoOut
    /\ dh = NoDelhommeau
    /\ mem = NoMem
    /\ procs = NoProcs

NextWave == CallComputeWaveNumber

SpecWave == InitWave /\ [][NextWave]_vars

---------------------------------------------------------------------------
(* Delhommeau: parameters, exportable settings, hash, String.  The float64
   parameters take integer values.  The 64-bit FNV-1a sum is modelled by the
   bytes written to it: a hash is the sequence of the tokens of the encoding. *)

DefaultDelhommeauParameters ==
    [TabulationNr |-> 676,
     TabulationRmax |-> 100,
     TabulationNz |-> 372,
     TabulationZmin |-> -251,
     TabulationNbIntegrationPoints |-> 1001,
     TabulationGridShape |-> "scaled_nemoh3",
     TabulationCacheDir |-> "",
     FiniteDepthMethod |-> "newer",
     FiniteDepthPronyDecompositionMethod |-> "python",
     FloatingPointPrecision |-> "float64",
     GfSingularities |-> "low_freq"]

ParamFields == DOMAIN DefaultDelhommeauParameters

\* The values each field takes: its default and others.  The method fields
\* are Go strings: NewDelhommeau takes any string, the declared ones or not.
ParamValues ==
    [TabulationNr : {676, 500},
     TabulationRmax : {100, 200},
     TabulationNz : {372, 100},
     TabulationZmin : {-251, -100},
     TabulationNbIntegrationPoints : {1001, 501},
     TabulationGridShape : {"scaled_nemoh3", "legacy"},
     TabulationCacheDir : {"", "/tmp/cache"},
     FiniteDepthMethod : {"newer", "legacy",
                          "newerfinite_depth_prony_decomposition_method="},
     FiniteDepthPronyDecompositionMethod : {"python", "fortran",
                          "finite_depth_prony_decomposition_method=python"},
     FloatingPointPrecision : Precisions,
     GfSingularities : {"low_freq", "high_freq", "low_freq_with_rankine_part"}]

NonDefault(params) == {f \in ParamFields : params[f] # DefaultDelhommeauParameters[f]}
ParamSets(n) == {params \in ParamValues : Cardinality(NonDefault(params)) <= n}

\* fmt's %d, and %v of a float64 of integer value: the sign and the decimal digits
RECURSIVE Digits(_)
Digits(n) == IF n < 10 THEN <<n>> ELSE Digits(n \div 10) \o <<n % 10>>
FormatNumber(n) == IF n < 0 THEN <<"-">> \o Digits(-n) ELSE Digits(n)

\* The bytes of a string, in pieces: a string that contains a key of the
\* settings is the pieces around the key, the key and the "=" after it.
Bytes(s) ==
    CASE s = "" -> <<>>
      [] s = "newerfinite_depth_prony_decomposition_method="
            -> <<"newer", "finite_depth_prony_decomposition_method", "=">>
      [] s = "finite_depth_prony_decomposition_method=python"
            -> <<"finite_depth_prony_decomposition_method", "=", "python">>
      [] OTHER -> <<s>>

\* fmt's %v of the value stored under key k
NumericKeys == {"tabulation_nr", "tabulation_rmax", "tabulation_nz", "tabulation_zmin",
                "tabulation_nb_integration_points"}
FormatValue(k, v) == IF k \in NumericKeys THEN FormatNumber(v) ELSE Bytes(v)

\* NewDelhommeau, lines 128-140: d.exportableSettings
ExportableSettings(params) ==
    [green_function |-> "Delhommeau",
     tabulation_nr |-> params.TabulationNr,
     tabulation_rmax |-> params.TabulationRmax,
     tabulation_nz |-> params.TabulationNz,
     tabulation_zmin |-> params.TabulationZmin,
     tabulation_nb_integration_points |-> params.TabulationNbIntegrationPoints,
     tabulation_grid_shape |-> params.TabulationGridShape,
     finite_depth_method |-> params.FiniteDepthMethod,
     finite_depth_prony_decomposition_method |-> params.FiniteDepthPronyDecompositionMethod,
     floating_point_precision |-> params.FloatingPointPrecision,
     gf_singularities |-> params.GfSingularities]

\* The keys of the settings in the order of Go strings.
SortedKeys ==
    <<"finite_depth_method",
      "finite_depth_prony_decomposition_method",
      "floating_point_precision",
      "gf_singularities",
      "green_function",
      "tabulation_grid_shape",
      "tabulation_nb_integration_points",
      "tabulation_nr",
      "tabulation_nz",
      "tabulation_rmax",
      "tabulation_zmin">>

\* sort.Strings(keys), the keys being distinct keys of the settings
SortStrings(keys) ==
    SelectSeq(SortedKeys, LAMBDA k : \E i \in 1..Len(keys) : keys[i] = k)

\* The key under which NewDelhommeau exports a field of the parameters, and
\* the name String gives it.
FieldKey ==
    [TabulationNr |-> "tabulation_nr",
     TabulationRmax |-> "tabulation_rmax",
     TabulationNz |-> "tabulation_nz",
     TabulationZmin |-> "tabulation_zmin",
     TabulationNbIntegrationPoints |-> "tabulation_nb_integration_points",
     TabulationGridShape |-> "tabulation_grid_shape",
     FiniteDepthMethod |-> "finite_depth_method",
     FiniteDepthPronyDecompositionMethod |-> "finite_depth_prony_decomposition_method",
     FloatingPointPrecision |-> "floating_point_precision",
     GfSingularities |-> "gf_singularities"]

\* The configuration fields: the parameters that NewDelhommeau exports to the
\* settings (every field but TabulationCacheDir).
ConfigurationFields == DOMAIN FieldKey

\* The orders in which `range d.exportableSettings` may yield the keys:
\* the keys of the settings in the order of the literal, rotated by n.
LiteralKeys(settings) ==
    SelectSeq(<<"green_function", "tabulation_nr", "tabulation_rmax", "tabulation_nz",
                "tabulation_zmin", "tabulation_nb_integration_points",
                "tabulation_grid_shape", "finite_depth_method",
                "finite_depth_prony_decomposition_method", "floating_point_precision",
                "gf_singularities">>,
              LAMBDA k : k \in DOMAIN settings)
MapRange(settings, n) ==
    LET keys == LiteralKeys(settings)
    IN  [i \in 1..Len(keys) |-> keys[((i - 1 + n) % Len(keys)) + 1]]
MapOrders == 0..2

\* fmt.Fprintf(h, "%s=%v", k, settings[k]) for the keys in turn
RECURSIVE Fprintf(_, _, _)
Fprintf(keys, settings, i) ==
    IF i > Len(keys)
    THEN <<>>
    ELSE <<keys[i], "=">> \o FormatValue(keys[i], settings[keys[i]])
            \o Fprintf(keys, settings, i + 1)

\* Mutant: the keys are not sorted.
computeHash_Unsorted(settings, order) ==
    Fprintf(MapRange(settings, order), settings, 1)

\* computeHash, the map being ranged over in the given order
computeHash(settings, order) ==
    Fprintf(SortStrings(MapRange(settings, order)), settings, 1)

\* NewDelhommeau(params); the embedded BaseGreenFunction's field is
\* FloatingPointPrecision.
NewDelhommeau(params, order) ==
    [parameters |-> params,
     FloatingPointPrecision |-> params.FloatingPointPrecision,
     tabulationGridShapeIndex |->
        CASE params.TabulationGridShape = "legacy" -> 0
          [] params.TabulationGridShape = "scaled_nemoh3" -> 1
          [] OTHER -> 0,
     finiteDepthMethodIndex |->
        CASE params.FiniteDepthMethod = "legacy" -> 0
          [] params.FiniteDepthMethod = "newer" -> 1
          [] OTHER -> 0,
     gfSingularitiesIndex |->
        CASE params.GfSingularities = "high_freq" -> 0
          [] params.GfSingularities = "low_freq" -> 1
          [] params.GfSingularities = "low_freq_with_rankine_part" -> 2
          [] OTHER -> 0,
     exportableSettings |-> ExportableSettings(params),
     hash |-> computeHash(ExportableSettings(params), order)]

\* One entry of nonDefaults: "field=value"
Entry(field, value) == <<[field |-> field, value |-> value]>>

\* Mutant: gf_singularities is never listed.
String_NoSingularities(d) ==
    LET defaults == DefaultDelhommeauParameters
        p == d.parameters
        nonDefaults ==
            (IF p.TabulationNr # defaults.TabulationNr
             THEN Entry("tabulation_nr", p.TabulationNr) ELSE <<>>)
            \o (IF p.TabulationRmax # defaults.TabulationRmax
                THEN Entry("tabulation_rmax", p.TabulationRmax) ELSE <<>>)
            \o (IF p.TabulationNz # defaults.TabulationNz
                THEN Entry("tabulation_nz", p.TabulationNz) ELSE <<>>)
            \o (IF p.TabulationZmin # defaults.TabulationZmin
                THEN Entry("tabulation_zmin", p.TabulationZmin) ELSE <<>>)
            \o (IF p.TabulationNbIntegrationPoints # defaults.TabulationNbIntegrationPoints
                THEN Entry("tabulation_nb_integration_points", p.TabulationNbIntegrationPoints)
                ELSE <<>>)
            \o (IF p.TabulationGridShape # defaults.TabulationGridShape
                THEN Entry("tabulation_grid_shape", p.TabulationGridShape) ELSE <<>>)
            \o (IF p.FiniteDepthMethod # defaults.FiniteDepthMethod
                THEN Entry("finite_depth_method", p.FiniteDepthMethod) ELSE <<>>)
            \o (IF p.FiniteDepthPronyDecompositionMethod # defaults.FiniteDepthPronyDecompositionMethod
                THEN Entry("finite_depth_prony_decomposition_method",
                           p.FiniteDepthPronyDecompositionMethod)
                ELSE <<>>)
            \o (IF p.FloatingPointPrecision # defaults.FloatingPointPrecision
                THEN Entry("floating_point_precision", p.FloatingPointPrecision) ELSE <<>>)
    IN  IF Len(nonDefaults) = 0
        THEN [text |-> "Delhommeau()", nonDefaults |-> <<>>]
        ELSE [text |-> "Delhommeau(%s)", nonDefaults |-> nonDefaults]

\* Delhommeau.String(): the text, and the entries that fill its %s
String(d) ==
    LET defaults == DefaultDelhommeauParameters
        p == d.parameters
        nonDefaults ==
            (IF p.TabulationNr # defaults.TabulationNr
             THEN Entry("tabulation_nr", p.TabulationNr) ELSE <<>>)
            \o (IF p.TabulationRmax # defaults.TabulationRmax
                THEN Entry("tabulation_rmax", p.TabulationRmax) ELSE <<>>)
            \o (IF p.TabulationNz # defaults.TabulationNz
                THEN Entry("tabulation_nz", p.TabulationNz) ELSE <<>>)
            \o (IF p.TabulationZmin # defaults.TabulationZmin
                THEN Entry("tabulation_zmin", p.TabulationZmin) ELSE <<>>)
            \o (IF p.TabulationNbIntegrationPoints # defaults.TabulationNbIntegrationPoints
                THEN Entry("tabulation_nb_integration_points", p.TabulationNbIntegrationPoints)
                ELSE <<>>)
            \o (IF p.TabulationGridShape # defaults.TabulationGridShape
                THEN Entry("tabulation_grid_shape", p.TabulationGridShape) ELSE <<>>)
            \o (IF p.FiniteDepthMethod # defaults.FiniteDepthMethod
                THEN Entry("finite_depth_method", p.FiniteDepthMethod) ELSE <<>>)
            \o (IF p.FiniteDepthPronyDecompositionMethod # defaults.FiniteDepthPronyDecompositionMethod
                THEN Entry("finite_depth_prony_decomposition_method",
                           p.FiniteDepthPronyDecompositionMethod)
                ELSE <<>>)
            \o (IF p.FloatingPointPrecision # defaults.FloatingPointPrecision
                THEN Entry("floating_point_precision", p.FloatingPointPrecision) ELSE <<>>)
            \o (IF p.GfSingularities # defaults.GfSingularities
                THEN Entry("gf_singularities", p.GfSingularities) ELSE <<>>)
    IN  IF Len(nonDefaults) = 0
        THEN [text |-> "Delhommeau()", nonDefaults |-> <<>>]
        ELSE [text |-> "Delhommeau(%s)", nonDefaults |-> nonDefaults]

\* The public operations, on instance a.
CallString ==
    /\ out' = Out("String", String(dh.a))
    /\ UNCHANGED <<args, ret, fg, tc, input, dh, mem, procs>>

CallHash ==
    /\ out' = Out("Hash", dh.a.hash)
    /\ UNCHANGED <<args, ret, fg, tc, input, dh, mem, procs>>

CallGetParameters ==
    /\ out' = Out("GetParameters", dh.a.parameters)
    /\ UNCHANGED <<args, ret, fg, tc, input, dh, mem, procs>>

CallGetFloatingPointPrecision ==
    /\ out' = Out("GetFloatingPointPrecision", dh.a.FloatingPointPrecision)
    /\ UNCHANGED <<args, ret, fg, tc, input, dh, mem, procs>>

CallSetFloatingPointPrecision ==
    \E precision \in Precisions :
        /\ dh' = [dh EXCEPT !.a.FloatingPointPrecision = precision]
        /\ out' = Out("SetFloatingPointPrecision", precision)
        /\ UNCHANGED <<args, ret, fg, tc, input, mem, procs>>

\* d.Evaluate on a mesh of one panel and a mesh of two
CallEvaluate ==
    /\ out' = Out("Evaluate",
                  DelhommeauEvaluate(args.mesh1, args.mesh2, Fin(0), PosInf, Cx(1, 0),
                                     args.adjointDoubleLayer, args.earlyDotProduct))
    /\ UNCHANGED <<args, ret, fg, tc, input, dh, mem, procs>>

\* Two instances, a and b, built by NewDelhommeau from the parameters in input.
InitDelhommeau ==
    /\ args = [mesh1 |-> Mesh("m1", 1), mesh2 |-> Mesh("m2", 2),
               adjointDoubleLayer |-> FALSE, earlyDotProduct |-> FALSE]
    /\ ret = NoCall
    /\ fg = NewFinGreen3D(PosInf)
    /\ tc = EmptyCache
    /\ input \in [a : ParamSets(MaxChanged), b : ParamSets(1)]
    /\ out = Out("NewDelhommeau", "")
    /\ \E oa \in MapOrders, ob \in MapOrders :
          dh = [a |-> NewDelhommeau(input.a, oa), b |-> NewDelhommeau(input.b, ob)]
    /\ mem = NoMem
    /\ procs = NoProcs

NextDelhommeau ==
    \/ CallString
    \/ CallHash
    \/ CallGetParameters
    \/ CallGetFloatingPointPrecision
    \/ CallSetFloatingPointPrecision
    \/ CallEvaluate

SpecDelhommeau == InitDelhommeau /\ [][NextDelhommeau]_vars

---------------------------------------------------------------------------
(* The storage of the matrices Evaluate returns.  mem.heap[a] is the backing
   slice of the block at address a; mat.NewCDense and mat.NewDense allocate
   with make, which yields a zeroed slice that overlaps no live one: the next
   address.  A matrix the caller holds is its dimensions, the address of its
   backing slice, and view, the contents as this caller has left them. *)

\* make([]T, n): the heap with a new zeroed block, whose address is its length
Make(heap, n) == Append(heap, [i \in 1..n |-> 0])

Held(m, addr) == [rows |-> m.rows, cols |-> m.cols, addr |-> addr,
                  view |-> [i \in 1..(m.rows * m.cols) |-> 0]]

\* The dummy normals of getColocationPointsAndNormals (part_005:107) are
\* allocated when mesh1 is a point array of 3 columns and adjointDoubleLayer is set.
DummyNormals(mesh1, adjointDoubleLayer) ==
    IsDense(mesh1) /\ mesh1.cols = 3 /\ adjointDoubleLayer /\ ~NewPanics(mesh1.n, 3)

\* Mutant: S and K are taken from a pool: a block of the right size that an
\* earlier call allocated is zeroed and used again.
AllocateMatrices_Pooled(heap, res) ==
    LET Pool(h, n) == {a \in 1..Len(h) : Len(h[a]) = n}
        Get(h, n) == IF Pool(h, n) = {}
                     THEN [heap |-> Make(h, n), addr |-> Len(h) + 1]
                     ELSE LET a == CHOOSE x \in Pool(h, n) : \A y \in Pool(h, n) : x <= y
                          IN  [heap |-> [h EXCEPT ![a] = [i \in 1..n |-> 0]], addr |-> a]
        s == Get(heap, res.a.rows * res.a.cols)
        k == Make(s.heap, res.b.rows * res.b.cols)
    IN  [heap |-> k, S |-> Held(res.a, s.addr), K |-> Held(res.b, Len(k))]

\* initMatrices, part_005:119 and 128: the two mat.NewCDense of a successful
\* call, S first.
AllocateMatrices(heap, res) ==
    LET s == Make(heap, res.a.rows * res.a.cols)
        k == Make(s, res.b.rows * res.b.cols)
    IN  [heap |-> k, S |-> Held(res.a, Len(s)), K |-> Held(res.b, Len(k))]

\* What a call of Evaluate that returned res does to the storage: an entry
\* of returned is the S and K of one successful call.
EvaluateStorage(m, res) ==
    LET h0 == IF DummyNormals(args.mesh1, args.adjointDoubleLayer) /\ res.kind # "panic"
              THEN Make(m.heap, args.mesh1.n * 3)
              ELSE m.heap
    IN  IF res.kind = "ok"
        THEN LET alloc == AllocateMatrices(h0, res)
             IN  [heap |-> alloc.heap,
                  returned |-> Append(m.returned, [S |-> alloc.S, K |-> alloc.K])]
        ELSE [m EXCEPT !.heap = h0]

\* The free surface, depth and wave number of the calls of this section.
AllocCall(op, res) == Call(op, Fin(0), PosInf, Cx(1, 0), 0, 0, res)

\* One more Evaluate on one of the four strategy instances.
EvaluateAgain ==
    /\ Len(mem.returned) < MaxCalls
    /\ \E op \in Strategies :
        LET res == CASE op = "Delhommeau" ->
                          DelhommeauEvaluate(args.mesh1, args.mesh2, Fin(0), PosInf, Cx(1, 0),
                                             args.adjointDoubleLayer, args.earlyDotProduct)
                     [] op = "HAMS" ->
                          HAMSEvaluate(args.mesh1, args.mesh2, Fin(0), PosInf, Cx(1, 0),
                                       args.adjointDoubleLayer, args.earlyDotProduct)
                     [] op = "LiangWuNoblesseGF" ->
                          LiangWuNoblesseEvaluate(args.mesh1, args.mesh2, Fin(0), PosInf, Cx(1, 0),
                                                  args.adjointDoubleLayer, args.earlyDotProduct)
                     [] op = "FinGreen3D" ->
                          FinGreenEvaluate(args.mesh1, args.mesh2, Fin(0), PosInf, Cx(1, 0),
                                           args.adjointDoubleLayer, args.earlyDotProduct)
        IN  /\ ret' = AllocCall(op, res)
            /\ fg' = IF op = "FinGreen3D" THEN FinGreenUpdate(fg, PosInf, Cx(1, 0)) ELSE fg
            /\ mem' = EvaluateStorage(mem, res)
    /\ UNCHANGED <<args, tc, input, out, dh, procs>>

\* The caller sets the first or the last entry of a matrix it holds:
\* S.Set(i, j, 1) or K.Set(i, j, 1).
CallerWrites ==
    \E c \in 1..Len(mem.returned), which \in {"S", "K"}, last \in BOOLEAN :
        LET m == mem.returned[c][which]
            e == IF last THEN m.rows * m.cols ELSE 1
        IN  /\ m.view[e] = 0
            /\ mem' = [mem EXCEPT !.heap[m.addr][e] = 1,
                                  !.returned[c][which].view[e] = 1]
            /\ ret' = AllocCall("Set", Ok(NilMatrix, NilMatrix))
            /\ UNCHANGED <<args, fg, tc, input, out, dh, procs>>

\* The meshes of this section: a mesh of one or two panels or a point array.
InitAlloc ==
    /\ args \in [mesh1 : {Mesh("m1", 1), Mesh("m1", 2), PointArray("m1", 1, 3), Other("m1")},
                 mesh2 : {Mesh("m2", 1), Mesh("m2", 2)},
                 adjointDoubleLayer : BOOLEAN, earlyDotProduct : BOOLEAN]
    /\ ret = NoCall
    /\ fg = NewFinGreen3D(Fin(10))
    /\ tc = EmptyCache
    /\ input = NoInput
    /\ out = NoOut
    /\ dh = NoDelhommeau
    /\ mem = NoMem
    /\ procs = NoProcs

NextAlloc ==
    \/ EvaluateAgain
    \/ CallerWrites

SpecAlloc == InitAlloc /\ [][NextAlloc]_vars

---------------------------------------------------------------------------
(* Concurrent construction of Delhommeau instances.  Each goroutine calls
   NewDelhommeau(params); pc is the function it is in or about to enter.
   The package holds no variable shared between constructions and no lock. *)

Goroutines == 1..MaxGoroutines

\* The parameters the goroutines construct with: the defaults, the defaults
\* with a cache directory, and another grid size.
BuildParams ==
    {DefaultDelhommeauParameters,
     [DefaultDelhommeauParameters EXCEPT !.TabulationCacheDir = "/tmp/cache"],
     [DefaultDelhommeauParameters EXCEPT !.TabulationNr = 500]}

Proc(pc, params, d, builds) == [pc |-> pc, params |-> params, d |-> d, builds |-> builds]

\* NewDelhommeau, lines 93-142: the instance with its settings and hash
Construct(g) ==
    /\ procs[g].pc = "NewDelhommeau"
    /\ \E order \in MapOrders :
          procs' = [procs EXCEPT ![g].pc = "tabulation",
                                 ![g].d = NewDelhommeau(procs[g].params, order)]
    /\ UNCHANGED <<args, ret, fg, tc, input, out, dh, mem>>

\* NewDelhommeau, lines 145-149: createTabulation or createOrLoadTabulation is entered
InitializeTabulation(g) ==
    /\ procs[g].pc = "tabulation"
    /\ procs' = [procs EXCEPT ![g].pc = IF procs[g].params.TabulationCacheDir = ""
                                        THEN "createTabulation"
                                        ELSE "createOrLoadTabulation",
                              ![g].builds = IF procs[g].params.TabulationCacheDir = ""
                                            THEN @ + 1 ELSE @]
    /\ UNCHANGED <<args, ret, fg, tc, input, out, dh, mem>>

\* createOrLoadTabulation, lines 233-237: the name of the cache file is
\* computed and dropped, and createTabulation is entered
createOrLoadTabulation(g) ==
    /\ procs[g].pc = "createOrLoadTabulation"
    /\ procs' = [procs EXCEPT ![g].pc = "createTabulation", ![g].builds = @ + 1]
    /\ UNCHANGED <<args, ret, fg, tc, input, out, dh, mem>>

\* createTabulation returns nil, and NewDelhommeau returns d
createTabulation(g) ==
    /\ procs[g].pc = "createTabulation"
    /\ procs' = [procs EXCEPT ![g].pc = "return"]
    /\ UNCHANGED <<args, ret, fg, tc, input, out, dh, mem>>

InitBuild ==
    /\ args = [mesh1 |-> Other("m1"), mesh2 |-> Other("m2"),
               adjointDoubleLayer |-> FALSE, earlyDotProduct |-> FALSE]
    /\ ret = NoCall
    /\ fg = NewFinGreen3D(PosInf)
    /\ tc = EmptyCache
    /\ input = NoInput
    /\ out = NoOut
    /\ dh = NoDelhommeau
    /\ mem = NoMem
    /\ procs \in [Goroutines -> {Proc("NewDelhommeau", p, NoDelhommeau, 0) : p \in BuildParams}]

NextBuild ==
    \E g \in Goroutines :
        \/ Construct(g)
        \/ InitializeTabulation(g)
        \/ createOrLoadTabulation(g)
        \/ createTabulation(g)

SpecBuild == InitBuild /\ [][NextBuild]_vars

---------------------------------------------------------------------------
(* RankineSource and RankineSourceGradient.  A float64 here is v * 2^(-600*t)
   for an integer v and t in {0, 1}: an integer, or an integer number of
   units of 2^-600.  float64 arithmetic on these values is exact but for two
   cases, which are modelled: the square of a nonzero multiple of 2^-600 is
   below the least subnormal 2^-1074 and is 0, and an integer plus or minus
   a multiple of 2^-600 is the integer.  A result is +Inf or the rational
   (num/den) * 2^(-600*t), t in {-1, 0, 1}. *)

F(v, t) == [v |-> v, t |-> IF v = 0 THEN 0 ELSE t]

\* a - b in float64
FSub(a, b) ==
    CASE a.t = b.t -> F(a.v - b.v, a.t)
      [] a.v = 0   -> F(-b.v, b.t)
      [] b.v = 0   -> a
      [] a.t = 0   -> a
      [] OTHER     -> F(-b.v, b.t)

\* d*d in float64, an integer: 0 for a multiple of 2^-600 (underflow)
FSquare(d) == IF d.t = 1 THEN 0 ELSE d.v * d.v

IsSquare(n) == \E q \in 0..n : q * q = n
\* math.Sqrt(n) where it is an integer
Sqrt(n) == CHOOSE q \in 0..n : q * q = n

RInf == [inf |-> TRUE, num |-> 1, den |-> 1, t |-> 0]
RVal(num, den, t) ==
    LET q == Rat(num, den) IN [inf |-> FALSE, num |-> q.num, den |-> q.den, t |-> t]

\* RankineSource(r)
RankineSource(r) ==
    IF r.v = 0
    THEN RInf
    ELSE RVal(1, r.v, -r.t)

\* RankineSourceGradient(p1, p2)
RankineSourceGradient(p1, p2) ==
    LET dx == FSub(p1[1], p2[1])
        dy == FSub(p1[2], p2[2])
        dz == FSub(p1[3], p2[3])
        r  == Sqrt(FSquare(dx) + FSquare(dy) + FSquare(dz))
    IN  IF r = 0
        THEN <<RInf, RInf, RInf>>
        ELSE LET r3 == r * r * r
             IN  <<RVal(-dx.v, r3, dx.t), RVal(-dy.v, r3, dy.t), RVal(-dz.v, r3, dz.t)>>

PointCoords == {F(v, t) : v \in 0..MaxPoint, t \in {0, 1}}
Points == [1..3 -> PointCoords]
Origin == [i \in 1..3 |-> F(0, 0)]
\* The pairs of points whose computed distance is an integer.
PointPairs ==
    {pq \in Points \X Points :
        IsSquare(FSquare(FSub(pq[1][1], pq[2][1])) + FSquare(FSub(pq[1][2], pq[2][2]))
                 + FSquare(FSub(pq[1][3], pq[2][3])))}
RankineInputs ==
    {[r |-> r, p1 |-> Origin, p2 |-> Origin] : r \in PointCoords}
    \cup {[r |-> F(0, 0), p1 |-> pq[1], p2 |-> pq[2]] : pq \in PointPairs}

CallRankineSource ==
    /\ out' = Out("RankineSource", RankineSource(input.r))
    /\ UNCHANGED <<args, ret, fg, tc, input, dh, mem, procs>>

CallRankineSourceGradient ==
    /\ out' = Out("RankineSourceGradient", RankineSourceGradient(input.p1, input.p2))
    /\ UNCHANGED <<args, ret, fg, tc, input, dh, mem, procs>>

InitRankine ==
    /\ args = [mesh1 |-> Other("m1"), mesh2 |-> Other("m2"),
               adjointDoubleLayer |-> FALSE, earlyDotProduct |-> FALSE]
    /\ ret = NoCall
    /\ fg = NewFinGreen3D(PosInf)
    /\ tc = EmptyCache
    /\ input \in RankineInputs
    /\ out = NoOut
    /\ dh = NoDelhommeau
    /\ mem = NoMem
    /\ procs = NoProcs

NextRankine ==
    \/ CallRankineSource
    \/ CallRankineSourceGradient

SpecRankine == InitRankine /\ [][NextRankine]_vars

----------------------------------------------------------------------------
(* Two FinGreen3D.Evaluate calls running in two goroutines on one instance.
   The code takes no lock: every read and every write of fg.waterDepth,
   fg.waveNumber and fg.dispersionRoots is a step of its own, and the steps
   of the two calls interleave in any order.  A goroutine is at the source
   line of its next access to the instance. *)

\* A call in progress: its arguments, its position, and the locals n and
\* roots of computeDispersionRoots.
Thread(pc, waterDepth, wavenumber, n, roots) ==
    [pc |-> pc, waterDepth |-> waterDepth, wavenumber |-> wavenumber,
     n |-> n, roots |-> roots]

\* complex(0, float64(n)*math.Pi/depth): 0 for depth = +Inf
EvanescentRoot(n, depth) ==
    IF IsInf(depth) THEN Cx(0, 0) ELSE ImPiOver(n, depth.v)

\* line 85: if waterDepth != fg.waterDepth
CompareDepth(g) ==
    /\ procs[g].pc = "85"
    /\ procs' = [procs EXCEPT ![g].pc =
                    IF procs[g].waterDepth # fg.waterDepth THEN "86" ELSE "45"]
    /\ UNCHANGED <<args, ret, fg, tc, input, out, dh, mem>>

\* line 86: fg.waterDepth = waterDepth
StoreDepth(g) ==
    /\ procs[g].pc = "86"
    /\ fg' = [fg EXCEPT !.waterDepth = procs[g].waterDepth]
    /\ procs' = [procs EXCEPT ![g].pc = "45"]
    /\ UNCHANGED <<args, ret, tc, input, out, dh, mem>>

\* line 45: fg.waveNumber = wavenumber; lines 65-66: roots := {k0}
StoreWaveNumber(g) ==
    /\ procs[g].pc = "45"
    /\ fg' = [fg EXCEPT !.waveNumber = procs[g].wavenumber]
    /\ procs' = [procs EXCEPT ![g].pc = "69", ![g].roots = <<procs[g].wavenumber>>]
    /\ UNCHANGED <<args, ret, tc, input, out, dh, mem>>

\* line 69: if !math.IsInf(fg.waterDepth, 1), and n := 1
TestInf(g) ==
    /\ procs[g].pc = "69"
    /\ procs' = [procs EXCEPT ![g].pc = IF ~IsInf(fg.waterDepth) THEN "72" ELSE "54",
                              ![g].n = 1]
    /\ UNCHANGED <<args, ret, fg, tc, input, out, dh, mem>>

\* lines 71-73: one iteration of the loop, which reads fg.waterDepth
AppendRoot(g) ==
    /\ procs[g].pc = "72"
    /\ procs' = [procs EXCEPT
                    ![g].roots = Append(procs[g].roots,
                                        EvanescentRoot(procs[g].n, fg.waterDepth)),
                    ![g].n = procs[g].n + 1,
                    ![g].pc = IF procs[g].n + 1 <= NEvan THEN "72" ELSE "54"]
    /\ UNCHANGED <<args, ret, fg, tc, input, out, dh, mem>>

\* line 54: fg.dispersionRoots = roots
StoreRoots(g) ==
    /\ procs[g].pc = "54"
    /\ fg' = [fg EXCEPT !.dispersionRoots = procs[g].roots]
    /\ procs' = [procs EXCEPT ![g].pc = "95"]
    /\ UNCHANGED <<args, ret, tc, input, out, dh, mem>>

\* lines 95-130: the rest of Evaluate, which does not touch the three fields
FinishEvaluate(g) ==
    /\ procs[g].pc = "95"
    /\ ret' = Call("FinGreen3D", Fin(0), procs[g].waterDepth, procs[g].wavenumber, 0, 0,
                   FinGreenEvaluate(args.mesh1, args.mesh2, Fin(0), procs[g].waterDepth,
                                    procs[g].wavenumber, args.adjointDoubleLayer,
                                    args.earlyDotProduct))
    /\ procs' = [procs EXCEPT ![g].pc = "done"]
    /\ UNCHANGED <<args, fg, tc, input, out, dh, mem>>

\* The argument pairs (waterDepth, wavenumber) of a call
ArgPairs == WaterDepths \X WaveNumbers

InitRace ==
    /\ args \in {[mesh1 |-> m1, mesh2 |-> Mesh("m2", 1),
                  adjointDoubleLayer |-> FALSE, earlyDotProduct |-> FALSE] :
                     m1 \in {Mesh("m1", 1), Other("m1")}}
    /\ ret = NoCall
    /\ \E d \in WaterDepths : fg = NewFinGreen3D(d)
    /\ tc = EmptyCache
    /\ input = NoInput
    /\ out = NoOut
    /\ dh = NoDelhommeau
    /\ mem = NoMem
    /\ \E a \in ArgPairs, b \in ArgPairs :
          /\ a # b
          /\ procs = [g \in Goroutines |->
                         IF g = 1 THEN Thread("85", a[1], a[2], 0, <<>>)
                                  ELSE Thread("85", b[1], b[2], 0, <<>>)]

NextRace ==
    \E g \in Goroutines :
        \/ CompareDepth(g)
        \/ StoreDepth(g)
        \/ StoreWaveNumber(g)
        \/ TestInf(g)
        \/ AppendRoot(g)
        \/ StoreRoots(g)
        \/ FinishEvaluate(g)

SpecRace == InitRace /\ [][NextRace]_vars

---------------------------------------------------------------------------
(* Properties *)

IsEvaluate(c) == c.op \in Strategies
IsNil(m) == m = NilMatrix
Shape(m) == <<m.rows, m.cols>>
\* An error was returned and both results are nil.
FailedWithNil(res) == res.kind = "err" /\ IsNil(res.a) /\ IsNil(res.b)

\* The panel (or point) count of what is passed as mesh1.
P1 == args.mesh1.n
P2 == args.mesh2.n

\* What C1 says of one successful Evaluate: S is P1 x P2, K is P1 x P2 with
\* earlyDotProduct and P1 x 3*P2 without.
C1_ShapeOf(c) ==
    (IsEvaluate(c) /\ c.res.kind = "ok") =>
        /\ IsMeshLike(args.mesh1) \/ (IsDense(args.mesh1) /\ args.mesh1.cols = 3)
        /\ IsMeshLike(args.mesh2)
        /\ Shape(c.res.a) = <<P1, P2>>
        /\ Shape(c.res.b) = <<P1, IF args.earlyDotProduct THEN P2 ELSE 3 * P2>>

\* C1: every successful Evaluate of every strategy returns S of shape P1 x P2
\* and K of shape P1 x P2 (earlyDotProduct) or P1 x 3*P2 (otherwise), so S and
\* K share the row count; and two successful calls on the same meshes and
\* flags, by whatever strategies, return matrices of identical shapes.
C1_EvaluateShapes ==
    [][(IsEvaluate(ret') /\ ret'.res.kind = "ok") =>
          /\ C1_ShapeOf(ret')
          /\ ret'.res.a.rows = ret'.res.b.rows
          /\ (IsEvaluate(ret) /\ ret.res.kind = "ok") =>
                 /\ Shape(ret'.res.a) = Shape(ret.res.a)
                 /\ Shape(ret'.res.b) = Shape(ret.res.b)]_vars

\* A strategy has returned K three times as wide as S, for a point array of
\* more rows than one and a mesh2 of another panel count.
C1_Witness ==
    /\ IsEvaluate(ret) /\ ret.res.kind = "ok"
    /\ ~args.earlyDotProduct /\ P1 # P2 /\ P1 > 1
    /\ IsDense(args.mesh1)
    /\ Shape(ret.res.b) = <<P1, 3 * P2>>

\* C2 as claimed: initMatrices returns a dimension error and nil matrices
\* whenever rows <= 0, cols <= 0 or a dimension exceeds 1,000,000, and
\* succeeds for all dimensions in 1..1,000,000.
C2_InitMatricesValidates ==
    ret.op = "initMatrices" =>
        IF ret.rows <= 0 \/ ret.cols <= 0 \/ ret.rows > MaxMatrixDim \/ ret.cols > MaxMatrixDim
        THEN FailedWithNil(ret.res)
        ELSE ret.res.kind = "ok"

\* C3: for a mesh-like mesh1 the colocation points are mesh1's centers; the
\* normals are mesh1's own with adjointDoubleLayer (whatever mesh2 is), and
\* mesh2's without it; without it a mesh2 that is not mesh-like gives an
\* error and neither points nor normals.
C3_MeshLikeColocation ==
    (ret.op = "getColocationPointsAndNormals" /\ IsMeshLike(args.mesh1)) =>
        IF args.adjointDoubleLayer
        THEN /\ ret.res.kind = "ok"
             /\ ret.res.a = [rows |-> P1, cols |-> 3, data |-> <<"centers", "m1">>]
             /\ ret.res.b = [rows |-> P1, cols |-> 3, data |-> <<"normals", "m1">>]
        ELSE IF IsMeshLike(args.mesh2)
             THEN /\ ret.res.kind = "ok"
                  /\ ret.res.a = [rows |-> P1, cols |-> 3, data |-> <<"centers", "m1">>]
                  /\ ret.res.b = [rows |-> P2, cols |-> 3, data |-> <<"normals", "m2">>]
             ELSE FailedWithNil(ret.res)

\* mesh1's own normals were returned although mesh2 is not mesh-like.
C3_Witness ==
    /\ ret.op = "getColocationPointsAndNormals"
    /\ IsMeshLike(args.mesh1) /\ args.adjointDoubleLayer /\ ~IsMeshLike(args.mesh2)
    /\ ret.res.kind = "ok" /\ ret.res.b.data = <<"normals", "m1">>

\* C4: a point array mesh1 that has not exactly 3 columns fails with the
\* column error, also when mesh2 is unusable; otherwise the colocation points
\* are the array, and the normals are an all-zero N x 3 array with
\* adjointDoubleLayer, or mesh2's normals without it (an error if mesh2 is
\* not mesh-like).
C4_PointArrayColocation ==
    (ret.op = "getColocationPointsAndNormals" /\ IsDense(args.mesh1)) =>
        IF args.mesh1.cols # 3
        THEN /\ FailedWithNil(ret.res)
             /\ ret.res.err = "point array must have 3 columns (x, y, z coordinates)"
        ELSE IF args.adjointDoubleLayer
             THEN /\ ret.res.kind = "ok"
                  /\ ret.res.a = [rows |-> P1, cols |-> 3, data |-> <<"points", "m1">>]
                  /\ ret.res.b = [rows |-> P1, cols |-> 3, data |-> <<"zero", "">>]
             ELSE IF IsMeshLike(args.mesh2)
                  THEN /\ ret.res.kind = "ok"
                       /\ ret.res.a = [rows |-> P1, cols |-> 3, data |-> <<"points", "m1">>]
                       /\ ret.res.b = [rows |-> P2, cols |-> 3, data |-> <<"normals", "m2">>]
                  ELSE FailedWithNil(ret.res)

\* The column error was returned for a two-column array although mesh2 is
\* not mesh-like and would have been looked at.
C4_Witness ==
    /\ ret.op = "getColocationPointsAndNormals"
    /\ IsDense(args.mesh1) /\ args.mesh1.cols # 3
    /\ ~args.adjointDoubleLayer /\ ~IsMeshLike(args.mesh2)
    /\ ret.res.err = "point array must have 3 columns (x, y, z coordinates)"

\* C5: with a mesh1 that is neither mesh-like nor a point array,
\* getColocationPointsAndNormals and every strategy's Evaluate return an
\* error and nil results, whatever mesh2 and adjointDoubleLayer are.
C5_UnrecognizedMesh1 ==
    ((IsEvaluate(ret) \/ ret.op = "getColocationPointsAndNormals")
        /\ ~IsMeshLike(args.mesh1) /\ ~IsDense(args.mesh1)) =>
        FailedWithNil(ret.res)

\* FinGreen3D.Evaluate has failed on an unrecognized mesh1 with a usable mesh2.
C5_Witness ==
    /\ ret.op = "FinGreen3D"
    /\ args.mesh1.kind = "other" /\ IsMeshLike(args.mesh2) /\ P2 > 0
    /\ args.adjointDoubleLayer
    /\ FailedWithNil(ret.res)

\* C6: every strategy's Evaluate returns an error and nil matrices whenever
\* mesh2 is not mesh-like, also with adjointDoubleLayer and a valid mesh1.
C6_Mesh2MustBeMeshLike ==
    (IsEvaluate(ret) /\ ~IsMeshLike(args.mesh2)) => FailedWithNil(ret.res)

\* HAMS.Evaluate has failed on mesh2 after the colocation data was extracted.
C6_Witness ==
    /\ ret.op = "HAMS"
    /\ IsMeshLike(args.mesh1) /\ P1 > 0 /\ args.adjointDoubleLayer
    /\ ~IsMeshLike(args.mesh2)
    /\ ret.res.kind = "err"
    /\ ret.res.err = "mesh2 must implement MeshLike interface"

LWNDomainError == "LiangWuNoblesseGF is only implemented for infinite depth with a free surface"

\* C7: LiangWuNoblesseGF.Evaluate succeeds only with a free surface that is
\* not +Inf and a water depth that is +Inf; with any other combination it
\* returns the domain-constraint error and nil matrices, whatever the mesh
\* inputs are.
C7_LiangWuNoblesseDomain ==
    ret.op = "LiangWuNoblesseGF" =>
        /\ ret.res.kind = "ok" => (~IsInf(ret.freeSurface) /\ IsInf(ret.waterDepth))
        /\ (IsInf(ret.freeSurface) \/ ~IsInf(ret.waterDepth)) =>
               (FailedWithNil(ret.res) /\ ret.res.err = LWNDomainError)
        /\ ret.res.err = LWNDomainError =>
               (IsInf(ret.freeSurface) \/ ~IsInf(ret.waterDepth))

\* The domain error was returned for a finite depth although mesh1 is unusable.
C7_Witness ==
    /\ ret.op = "LiangWuNoblesseGF"
    /\ ~IsInf(ret.freeSurface) /\ ~IsInf(ret.waterDepth)
    /\ args.mesh1.kind = "other"
    /\ ret.res.err = LWNDomainError

\* What C8 says of the cache NewTabulationCache returns.
C8_Fresh ==
    out.op = "NewTabulationCache" =>
        /\ ~tc.IsValid
        /\ tc.Precision = input.precision
        /\ Len(tc.Values) = Len(input.zRange)
        /\ \A j \in 1..Len(tc.Values) :
              /\ Len(tc.Values[j]) = Len(input.rRange)
              /\ \A i \in 1..Len(tc.Values[j]) : tc.Values[j][i] = Cx(0, 0)

\* C8: the cache NewTabulationCache returns is invalid, carries the given
\* precision, and has an all-zero value matrix of len(zRange) rows of
\* len(rRange) columns; IsValid changes only when a caller sets it, and an
\* Interpolate call leaves the cache as it was.
C8_NewCacheInvalid ==
    [][/\ C8_Fresh
       /\ tc'.IsValid # tc.IsValid => out'.op = "SetValid"
       /\ out'.op = "Interpolate" => tc' = tc]_vars

\* Interpolate was called on a new cache of a 3 x 2 grid, which is still invalid.
C8_Witness ==
    /\ out.op = "Interpolate" /\ ~tc.IsValid
    /\ Len(tc.Values) = 2 /\ Len(tc.Values[1]) = 3

\* C9: Interpolate on a cache that is not valid returns the cache-invalid
\* error, and no value, for every (r, z), in range or not.
C9_InvalidCacheFails ==
    (out.op = "Interpolate" /\ ~tc.IsValid) =>
        /\ out.res.kind = "err"
        /\ out.res.err = "Tabulation cache is not valid"
        /\ out.res.value = NoValue

\* The range a query is compared with: [range[0], range[last]].
Outside(range, v) ==
    \/ Len(range) = 0
    \/ v < range[1]
    \/ v > range[Len(range)]

\* The cache-invalid error was returned for a point outside the grid.
C9_Witness ==
    /\ out.op = "Interpolate" /\ ~tc.IsValid
    /\ Len(tc.RRange) >= 2 /\ Outside(tc.RRange, input.r)
    /\ out.res.err = "Tabulation cache is not valid"

\* C10 as claimed: on a valid cache Interpolate returns the out-of-range
\* error whenever r is outside [RRange[0], RRange[last]] or z is outside
\* [ZRange[0], ZRange[last]], and never indexes the value matrix out of bounds.
C10_OutsideFails ==
    (out.op = "Interpolate" /\ tc.IsValid) =>
        /\ out.res.kind # "panic"
        /\ (Outside(tc.RRange, input.r) \/ Outside(tc.ZRange, input.z)) =>
               (out.res.kind = "err" /\ out.res.err = "Point outside tabulation range")


\* The first cell of a range that holds v: the least i with
\* range[i] <= v <= range[i+1] (1-based), 0 if there is none.
CellOf(range, v) ==
    LET holds == {i \in 1..(Len(range) - 1) : range[i] <= v /\ v <= range[i + 1]}
    IN  IF holds = {} THEN 0 ELSE CHOOSE i \in holds : \A k \in holds : i <= k

\* C11: on a valid cache, for a query in a cell [r1, r2] x [z1, z2] the value
\* Interpolate returns is v1*(1-fz) + v2*fz with v1 = v11*(1-fr) + v21*fr,
\* v2 = v12*(1-fr) + v22*fr, fr = (r-r1)/(r2-r1), fz = (z-z1)/(z2-z1), where
\* v11 = Values[z1][r1], v21 = Values[z1][r2], v12 = Values[z2][r1],
\* v22 = Values[z2][r2]; at the midpoint of the cell it is the mean of the
\* four corner values.  (Both sides are multiplied by the denominators.)
C11_BilinearBlend ==
    (out.op = "Interpolate" /\ tc.IsValid /\ out.res.kind = "ok") =>
        LET i == CellOf(tc.RRange, input.r)
            j == CellOf(tc.ZRange, input.z)
            r1 == tc.RRange[i]
            r2 == tc.RRange[i + 1]
            z1 == tc.ZRange[j]
            z2 == tc.ZRange[j + 1]
            v11 == tc.Values[j][i]
            v21 == tc.Values[j][i + 1]
            v12 == tc.Values[j + 1][i]
            v22 == tc.Values[j + 1][i + 1]
            q == out.res.value
            d == (r2 - r1) * (z2 - z1)
            r == input.r
            z == input.z
        IN  /\ i > 0 /\ j > 0
            /\ (r1 < r2 /\ z1 < z2) =>
                 /\ ~q.nan /\ q.den > 0
                 /\ q.re * d = q.den * ((v11.re * (r2 - r) + v21.re * (r - r1)) * (z2 - z)
                                        + (v12.re * (r2 - r) + v22.re * (r - r1)) * (z - z1))
                 /\ q.im * d = q.den * ((v11.im * (r2 - r) + v21.im * (r - r1)) * (z2 - z)
                                        + (v12.im * (r2 - r) + v22.im * (r - r1)) * (z - z1))
                 /\ (2 * r = r1 + r2 /\ 2 * z = z1 + z2) =>
                      /\ 4 * q.re = q.den * (v11.re + v21.re + v12.re + v22.re)
                      /\ 4 * q.im = q.den * (v11.im + v21.im + v12.im + v22.im)

\* Interpolate at the midpoint of the cell with corner values 1, 2, 3, 4 has
\* returned 5/2.
C11_Witness ==
    /\ out.op = "Interpolate" /\ tc.IsValid /\ out.res.kind = "ok"
    /\ tc.RRange = <<0, 2>> /\ tc.ZRange = <<0, 2>>
    /\ input.r = 1 /\ input.z = 1
    /\ tc.Values = <<(<<Cx(1, 0), Cx(2, 0)>>), (<<Cx(3, 0), Cx(4, 0)>>)>>
    /\ out.res.value = [nan |-> FALSE, re |-> 5, im |-> 0, den |-> 2]

StrictlyIncreasing(range) == \A i \in 1..(Len(range) - 1) : range[i] < range[i + 1]

\* C12 as claimed: in every reachable state RRange and ZRange of the cache
\* are strictly increasing, and so no Interpolate divides by r2 - r1 = 0 or
\* z2 - z1 = 0 (which makes its value NaN).
C12_RangesStrictlyIncreasing ==
    /\ StrictlyIncreasing(tc.RRange)
    /\ StrictlyIncreasing(tc.ZRange)
    /\ (out.op = "Interpolate" /\ out.res.kind = "ok") => ~out.res.value.nan

\* roots is the root family of wave number k0 and depth h: k0 first, then,
\* for a finite h only, the ten numbers i*n*pi/h, n = 1..10, in this order.
IsRootFamily(roots, k0, h) ==
    /\ Len(roots) >= 1
    /\ roots[1] = k0
    /\ IF IsInf(h)
       THEN Len(roots) = 1
       ELSE /\ Len(roots) = 11
            /\ \A n \in 1..10 :
                  /\ roots[n + 1].re = 0 /\ roots[n + 1].im = 0
                  /\ roots[n + 1].h > 0
                  /\ roots[n + 1].npi * h.v = n * roots[n + 1].h

\* C13: the roots computed for wave number k0 at depth h are k0 followed, for
\* a finite h, by exactly the ten imaginary roots i*n*pi/h, n = 1..10, in
\* increasing n (11 roots), and are k0 alone for h = +Inf.
C13_RootFamily ==
    ret.op \in {"SetWaveNumber", "FinGreen3D"} =>
        IsRootFamily(fg.dispersionRoots, ret.wavenumber, ret.waterDepth)

\* SetWaveNumber(2) at depth 20 has computed 11 roots, the last one i*10*pi/20.
C13_Witness ==
    /\ ret.op = "SetWaveNumber"
    /\ ret.waterDepth = Fin(20) /\ ret.wavenumber = Cx(2, 0)
    /\ Len(fg.dispersionRoots) = 11
    /\ fg.dispersionRoots[1] = Cx(2, 0)
    /\ fg.dispersionRoots[11] = [re |-> 0, im |-> 0, npi |-> 1, h |-> 2]

\* C14: after a successful FinGreen3D.Evaluate with water depth d and wave
\* number k the instance holds depth d, wave number k and the root family of
\* (k, d), whatever depth it held before the call.
C14_EvaluateStoresDepth ==
    [][(ret'.op = "FinGreen3D" /\ ret'.res.kind = "ok") =>
          /\ fg'.waterDepth = ret'.waterDepth
          /\ fg'.waveNumber = ret'.wavenumber
          /\ IsRootFamily(fg'.dispersionRoots, fg'.waveNumber, fg'.waterDepth)]_vars

\* A successful FinGreen3D.Evaluate at depth 20 with wave number 1 has left
\* depth 20, wave number 1 and the roots of depth 20 in the instance.
C14_Witness ==
    /\ ret.op = "FinGreen3D" /\ ret.res.kind = "ok"
    /\ ret.waterDepth = Fin(20) /\ fg.waterDepth = Fin(20)
    /\ fg.waveNumber = Cx(1, 0)
    /\ fg.dispersionRoots[2] = [re |-> 0, im |-> 0, npi |-> 1, h |-> 20]

\* C15: for waterDepth = +Inf ComputeWaveNumber returns omega*omega/g with
\* g = 9.81 and imaginary part 0, for every omega, and runs no iteration of
\* the Newton loop.
C15_DeepWaterWaveNumber ==
    (out.op = "ComputeWaveNumber" /\ IsInf(input.waterDepth)) =>
        /\ out.res.re.den > 0
        /\ out.res.re.num * 981 = out.res.re.den * 100 * input.omega * input.omega
        /\ out.res.im.num = 0
        /\ out.res.iterations = 0

\* ComputeWaveNumber(3, +Inf) has returned 9/9.81 = 100/109.
C15_Witness ==
    /\ out.op = "ComputeWaveNumber" /\ IsInf(input.waterDepth)
    /\ input.omega = 3
    /\ out.res.re = [num |-> 100, den |-> 109]
    /\ out.res.iterations = 0

\* C16 as claimed: for a finite depth h the k ComputeWaveNumber returns is
\* real and positive and |k*tanh(k*h) - omega*omega/g| < 1e-10.
C16_FiniteDepthResidual ==
    (out.op = "ComputeWaveNumber" /\ ~IsInf(input.waterDepth)) =>
        LET k == out.res.re
            h == Rat(input.waterDepth.v, 1)
            v == RDiv(Rat(input.omega * input.omega, 1), Rat(981, 100))
        IN  /\ out.res.im.num = 0
            /\ k.num > 0
            /\ Below(RAbs(RSub(RMul(k, Tanh(RMul(k, h))), v)))

\* Instance a carries the hash its construction gave it, whatever the order
\* in which the map of its settings is ranged over.
HashOfSettings(d, params) ==
    /\ d.exportableSettings = ExportableSettings(params)
    /\ \A order \in MapOrders : d.hash = computeHash(d.exportableSettings, order)

\* C17: two instances built from equal parameters have equal hashes; the hash
\* construction gives an instance is the encoding of its key-sorted exported
\* settings, in every order the map may be ranged over, and no operation
\* changes the hash or the settings afterwards.
C17_HashDeterministic ==
    /\ [](out.op = "NewDelhommeau" =>
            /\ HashOfSettings(dh.a, input.a)
            /\ HashOfSettings(dh.b, input.b))
    /\ [](input.a = input.b => dh.a.hash = dh.b.hash)
    /\ [][/\ dh'.a.hash = dh.a.hash
          /\ dh'.b.hash = dh.b.hash
          /\ dh'.a.exportableSettings = dh.a.exportableSettings
          /\ dh'.b.exportableSettings = dh.b.exportableSettings]_vars

\* Hash() has returned, on an instance of non-default parameters, the hash of
\* the other instance, which was built from the same parameters.
C17_Witness ==
    /\ input.a = input.b
    /\ input.a # DefaultDelhommeauParameters
    /\ out.op = "Hash"
    /\ out.res = dh.b.hash
    /\ Len(out.res) > 22

\* C18 as claimed: two instances built from parameters that differ in at
\* least one configuration field have different hashes, the sorted key=value
\* encodings fed to the hash being different.
C18_DifferentHashes ==
    (\E f \in ConfigurationFields : input.a[f] # input.b[f]) =>
        dh.a.hash # dh.b.hash

\* The fields String() has listed, and whether it listed each once with the
\* value the parameters hold.
Listed(res) == {res.nonDefaults[i].field : i \in 1..Len(res.nonDefaults)}
ListedValues(res, params) ==
    /\ Cardinality(Listed(res)) = Len(res.nonDefaults)
    /\ \A i \in 1..Len(res.nonDefaults) :
          \E f \in ConfigurationFields :
              /\ FieldKey[f] = res.nonDefaults[i].field
              /\ res.nonDefaults[i].value = params[f]

C20_ConfigurationImmutable ==
    /\ dh.a.parameters = input.a
    /\ dh.a.hash = computeHash(ExportableSettings(input.a), 0)
    /\ dh.a.FloatingPointPrecision = input.a.FloatingPointPrecision
    /\ dh.a.FloatingPointPrecision = dh.a.exportableSettings.floating_point_precision
    /\ (out.op = "GetFloatingPointPrecision" =>
            out.res = dh.a.parameters.FloatingPointPrecision)

\* The matrices the caller holds, from all the calls.
HeldMatrices ==
    {<<c, which>> : c \in 1..Len(mem.returned), which \in {"S", "K"}}
HeldAt(x) == mem.returned[x[1]][x[2]]

\* C21: the S and K of every successful Evaluate are blocks of their own,
\* zero when returned: no two matrices returned (by one call or by two, on
\* one instance or on two) share storage, each holds exactly what its caller
\* has written into it and zeros elsewhere, and a write by the caller changes
\* no instance.
C21_FreshMatrices ==
    /\ [](/\ \A x, y \in HeldMatrices : x # y => HeldAt(x).addr # HeldAt(y).addr
          /\ \A x \in HeldMatrices :
                /\ HeldAt(x).addr \in 1..Len(mem.heap)
                /\ mem.heap[HeldAt(x).addr] = HeldAt(x).view)
    /\ [][/\ (ret'.op \in Strategies /\ ret'.res.kind = "ok") =>
                /\ Len(mem'.returned) = Len(mem.returned) + 1
                /\ \A which \in {"S", "K"} :
                      LET m == mem'.returned[Len(mem'.returned)][which]
                      IN  /\ m.addr > Len(mem.heap)
                          /\ \A e \in 1..(m.rows * m.cols) : mem'.heap[m.addr][e] = 0
          /\ ret'.op = "Set" => (fg' = fg /\ dh' = dh)]_vars

\* Two calls have returned and the caller has written into the S of the
\* first and the K of the second, which are of one size.
C21_Witness ==
    /\ Len(mem.returned) = 2
    /\ args.earlyDotProduct
    /\ mem.returned[1].S.view[1] = 1
    /\ mem.returned[2].K.view[1] = 1
    /\ mem.returned[2].S.view[1] = 0
    /\ mem.returned[1].K.view[1] = 0

\* The goroutines whose instance has the hash of goroutine g's instance.
HasHash(g) == procs[g].pc # "NewDelhommeau"
SameHash(g) == {h \in Goroutines : HasHash(h) /\ procs[h].d.hash = procs[g].d.hash}

\* C22 as claimed: of the goroutines that construct instances of one hash at
\* most one is in the build of the tabulation at any time, and only one of
\* them builds at all: the others wait for or reuse its result.
C22_OneBuildPerHash ==
    \A g \in Goroutines :
        HasHash(g) =>
            /\ Cardinality({h \in SameHash(g) : procs[h].pc = "createTabulation"}) <= 1
            /\ Cardinality({h \in SameHash(g) : procs[h].builds > 0}) <= 1

\* -(d)/r^3 for the exact distance r of two distinct points whose difference
\* has the components diff, as float64 gives it.  If a component of diff is a
\* nonzero integer, r^3 is the integer r3 (to rounding); if all are multiples
\* of 2^-600, r^3 is of the order of 2^-1800 and the quotient overflows to
\* the infinity of the sign of -d, or is 0 for d = 0.
GradientComponent(d, diff) ==
    LET whole == {i \in 1..3 : diff[i].t = 0 /\ diff[i].v # 0}
        r2 == diff[1].v * diff[1].v * (1 - diff[1].t) + diff[2].v * diff[2].v * (1 - diff[2].t)
              + diff[3].v * diff[3].v * (1 - diff[3].t)
        r == Sqrt(r2)
    IN  IF whole # {}
        THEN RVal(-d.v, r * r * r, d.t)
        ELSE IF d.v = 0 THEN RVal(0, 1, 0)
             ELSE [inf |-> TRUE, num |-> IF d.v > 0 THEN -1 ELSE 1, den |-> 1, t |-> 0]

\* C23 as claimed: RankineSource(0) = +Inf and RankineSource(r) = 1/r for
\* r > 0; RankineSourceGradient(p, p) is +Inf in each component, and for
\* distinct points p1, p2 at distance r its components are -(p1 - p2)/r^3.
C23_RankineSingularity ==
    /\ out.op = "RankineSource" =>
          IF input.r.v = 0
          THEN out.res = RInf
          ELSE /\ ~out.res.inf
               /\ out.res.num * input.r.v = out.res.den
               /\ out.res.t = -input.r.t
    /\ out.op = "RankineSourceGradient" =>
          IF input.p1 = input.p2
          THEN out.res = <<RInf, RInf, RInf>>
          ELSE LET diff == [i \in 1..3 |-> FSub(input.p1[i], input.p2[i])]
               IN  \A i \in 1..3 : out.res[i] = GradientComponent(diff[i], diff)

\* C24 as claimed: findIndex(range, v) returns an i in 0..len(range)-2 with
\* range[i] <= v <= range[i+1] whenever v is in [range[0], range[last]], and
\* -1 exactly when v is outside that interval or the range has fewer than two
\* entries; it never returns the last index.
C24_FindIndexBrackets ==
    out.op = "findIndex" =>
        LET range == out.res.arr
            v == out.res.val
            i == out.res.idx
        IN  /\ i = -1 \/ (/\ 0 <= i /\ i <= Len(range) - 2
                          /\ At(range, i) <= v /\ v <= At(range, i + 1))
            /\ (i = -1) <=> (Len(range) < 2 \/ Outside(range, v))

\* The derivative and the Newton step of ComputeWaveNumber at estimate k.
NewtonDf(k, h) ==
    LET tanh_kh == Tanh(RMul(k, h))
    IN  RAdd(tanh_kh, RMul(RMul(k, h), RSub(Rat(1, 1), RMul(tanh_kh, tanh_kh))))
NewtonStep(k, v, h) ==
    RDiv(RSub(RMul(k, Tanh(RMul(k, h))), v), NewtonDf(k, h))

\* C25: for a finite depth ComputeWaveNumber returns a value after at most
\* 100 iterations of the Newton loop: it leaves the loop early at an
\* estimate k with |f'(k)| < 1e-15 or with a step |k_new - k| < 1e-12, and
\* otherwise after the 100th iteration, returning the estimate it has.
C25_NewtonTerminates ==
    (out.op = "ComputeWaveNumber" /\ ~IsInf(input.waterDepth)) =>
        LET k == out.res.re
            h == Rat(input.waterDepth.v, 1)
            v == RDiv(Rat(input.omega * input.omega, 1), Gravity)
        IN  /\ out.res.iterations \in 1..MaxIter
            /\ out.res.im.num = 0 /\ k.den > 0
            /\ out.res.stop \in {"df", "step", "cap"}
            /\ out.res.stop = "df" => Below(RAbs(NewtonDf(k, h)))
            /\ out.res.stop = "step" =>
                  (~Below(RAbs(NewtonDf(k, h))) /\ Below(RAbs(NewtonStep(k, v, h))))
            /\ out.res.stop = "cap" =>
                  /\ out.res.iterations = MaxIter
                  /\ ~Below(RAbs(NewtonDf(k, h)))
                  /\ ~Below(RAbs(NewtonStep(k, v, h)))

\* ComputeWaveNumber(15, -10) has run all 100 iterations without reaching
\* the tolerance and has returned its estimate, 225/9.81 = 2500/109.
C25_Witness ==
    /\ out.op = "ComputeWaveNumber"
    /\ input.omega = 15 /\ input.waterDepth = Fin(-10)
    /\ out.res.stop = "cap" /\ out.res.iterations = MaxIter
    /\ out.res.re = [num |-> 2500, den |-> 109]

\* C26: in every state reached by SetWaveNumber and Evaluate calls on one
\* FinGreen3D instance, failing Evaluate calls included, the stored roots are
\* empty or the root family of the stored (waveNumber, waterDepth) pair; they
\* are empty only as long as neither call was made.
C26_RootsOfStoredPair ==
    /\ [](\/ fg.dispersionRoots = <<>>
          \/ IsRootFamily(fg.dispersionRoots, fg.waveNumber, fg.waterDepth))
    /\ [][/\ fg'.dispersionRoots = <<>> => fg' = fg
          /\ ret'.op \in {"SetWaveNumber", "FinGreen3D"} => fg'.dispersionRoots # <<>>]_vars

\* A failing Evaluate at infinite depth with wave number 2 has left the single
\* root 2 of that pair in the instance.
C26_Witness ==
    /\ ret.op = "FinGreen3D" /\ ret.res.kind = "err"
    /\ ret.waterDepth = PosInf /\ ret.wavenumber = Cx(2, 0)
    /\ fg.waterDepth = PosInf /\ fg.waveNumber = Cx(2, 0)
    /\ fg.dispersionRoots = <<Cx(2, 0)>>

\* C27: a FinGreen3D.Evaluate that returns an error (an invalid mesh1 or
\* mesh2, or dimensions initMatrices rejects) has stored the depth and the
\* wave number of the failed call and their root family in the instance,
\* whatever the instance held before the call.
C27_FailedEvaluateCommits ==
    [][(ret'.op = "FinGreen3D" /\ ret'.res.kind = "err") =>
          /\ fg'.waterDepth = ret'.waterDepth
          /\ fg'.waveNumber = ret'.wavenumber
          /\ fg'.dispersionRoots =
                 computeDispersionRoots(ret'.waterDepth, ret'.wavenumber)]_vars

\* Evaluate(depth 10, wave number 2) has failed on a mesh1 that is neither a
\* mesh nor a point array, and the instance holds depth 10, wave number 2 and
\* the eleven roots of that pair.
C27_Witness ==
    /\ ret.op = "FinGreen3D" /\ ret.res.kind = "err"
    /\ args.mesh1.kind = "other"
    /\ ret.waterDepth = Fin(10) /\ ret.wavenumber = Cx(2, 0)
    /\ fg.waterDepth = Fin(10) /\ fg.waveNumber = Cx(2, 0)
    /\ Len(fg.dispersionRoots) = 11
    /\ fg.dispersionRoots[2] = [re |-> 0, im |-> 0, npi |-> 1, h |-> 10]

\* C28: when two Evaluate calls with different (waterDepth, wavenumber)
\* arguments have run concurrently on one instance and both have finished,
\* the stored roots are the root family of the stored (waveNumber,
\* waterDepth) pair, and that pair is the argument pair of one of the calls.
C28_ConcurrentEvaluateConsistent ==
    (\A g \in Goroutines : procs[g].pc = "done") =>
        /\ IsRootFamily(fg.dispersionRoots, fg.waveNumber, fg.waterDepth)
        /\ \E g \in Goroutines :
              /\ fg.waterDepth = procs[g].waterDepth
              /\ fg.waveNumber = procs[g].wavenumber

\* The cache is valid and both ranges are strictly increasing with at least
\* two nodes.
ValidIncreasing ==
    /\ tc.IsValid
    /\ Len(tc.RRange) >= 2 /\ StrictlyIncreasing(tc.RRange)
    /\ Len(tc.ZRange) >= 2 /\ StrictlyIncreasing(tc.ZRange)

\* C29: on a valid cache with strictly increasing ranges of at least two
\* nodes Interpolate(r, z) succeeds exactly when RRange[0] <= r <=
\* RRange[last] and ZRange[0] <= z <= ZRange[last]; a query at the maximum
\* coordinate of a range succeeds and is interpolated in the last cell.
C29_SucceedsInsideClosedRange ==
    (out.op = "Interpolate" /\ ValidIncreasing) =>
        LET rLen == Len(tc.RRange)
            zLen == Len(tc.ZRange)
            inside == /\ tc.RRange[1] <= input.r /\ input.r <= tc.RRange[rLen]
                      /\ tc.ZRange[1] <= input.z /\ input.z <= tc.ZRange[zLen]
        IN  /\ out.res.kind = "ok" <=> inside
            /\ out.res.kind \in {"ok", "err"}
            /\ (inside /\ input.r = tc.RRange[rLen]) =>
                  findIndex(tc.RRange, input.r) = rLen - 2
            /\ (inside /\ input.z = tc.ZRange[zLen]) =>
                  findIndex(tc.ZRange, input.z) = zLen - 2
            /\ (inside /\ input.r = tc.RRange[rLen] /\ input.z = tc.ZRange[zLen]) =>
                  out.res.value = Bilinear(tc, input.r, input.z, rLen - 2, zLen - 2)

\* Interpolate(4, 4) on the ranges 0, 2, 4 has succeeded: both coordinates
\* are the maxima, and the cell is the second (last) one in each direction.
C29_Witness ==
    /\ out.op = "Interpolate" /\ out.res.kind = "ok" /\ tc.IsValid
    /\ tc.RRange = <<0, 2, 4>> /\ tc.ZRange = <<0, 2, 4>>
    /\ input.r = 4 /\ input.z = 4
    /\ findIndex(tc.RRange, input.r) = 1

============================================================================
